---- MODULE Spec2Model ----
(***************************************************************************)
(* Lmdbug: a browser for LMDB stores of serialized protobuf records.       *)
(*                                                                         *)
(* The module models, from the sources,                                    *)
(*   - LMDBReader (lmdbug/core/lmdb_reader.py): open/close, the key-hash   *)
(*     sampler get_random_entries_keyhash and get_first_entries, with      *)
(*     get_first_n_entries of the older src/lmdbug/core/lmdb_reader.py;    *)
(*   - ProcessorRegistry (lmdbug/core/processor_registry.py);              *)
(*   - the two media-preview aggregators, DataService._add_media_preview   *)
(*     (lmdbug/core/data_service.py) and                                   *)
(*     ProtobufHandler.process_media_fields (lmdbug/core/protobuf_handler  *)
(*     .py) with their callers _format_entry and _add_protobuf_info;       *)
(*   - LmdbugInterface (lmdbug/ui/gradio_interface.py): sessions, their    *)
(*     DataService objects and the temporary files of their results;       *)
(*   - the cleanup of temporary files by DataService and ProtobufHandler;  *)
(*   - the field processors of config_examples/custom_processors.py and    *)
(*     config_examples/simple_processors.py.                               *)
(*                                                                         *)
(* Each component has its own specification (SpecSampler, SpecReader,      *)
(* SpecRegistry, SpecAggregator, SpecSession, SpecCleanup,                 *)
(* SpecProcessors); the variables of the other components stay unchanged.  *)
(***************************************************************************)
EXTENDS Integers, Sequences, FiniteSets, TLC

VARIABLES
    env,          \* LMDBReader.env: TRUE when the environment is open
    store,        \* the store's entries, in native key order
    hashOf,       \* the 64-bit blake2b digest of each key (fixed per store)
    lastSample,   \* the last get_random_entries_keyhash call and its outcome
    registry,     \* processor_registry._processors: name -> class
    lastWriter,   \* history: the class of the latest register call per name
    lastCreate,   \* the last create_processor call and its outcome
    lastLoad,     \* the last load_from_file call and its outcome
    lastDecorate, \* the last register_decorator application, while the registry is as it left it
    variant,      \* which service the process runs: DataService or PreviewService
    svc,          \* the DataService: message class, temp_files, processor_paths
    pv,           \* the PreviewService: loaded message type and its field_config
    lastEntry,    \* the entry the operation just performed returned, with the
                  \* history of its aggregation (NoEntry after other operations)
    ifaceConfig,  \* LmdbugInterface.config: None, or the processor_paths of
                  \* the LmdbugConfig
    sessions,     \* LmdbugInterface: the InterfaceSession objects (service, results)
    services,     \* the DataService objects the interface constructed
    active,       \* LmdbugInterface._active_services
    disk,         \* the temporary files that exist
    locked,       \* the temporary files whose deletion fails
    shutdown,     \* TRUE once launch() has run cleanup_temp_files
    lastProcess,  \* the last call of a shipped field processor and what it returned
    lastFirst,    \* the last call that read the first entries of the store
    lastOp        \* the last interface or cleanup operation and how it ended

samplerVars == <<env, store, hashOf, lastSample>>

registryVars == <<registry, lastWriter, lastCreate, lastLoad, lastDecorate>>

serviceVars == <<variant, svc, pv, lastEntry>>

sessionVars == <<ifaceConfig, sessions, services, active, disk, locked, shutdown, lastOp>>

probeVars == <<lastProcess, lastFirst>>

vars == <<env, store, hashOf, lastSample,
          registry, lastWriter, lastCreate, lastLoad, lastDecorate,
          variant, svc, pv, lastEntry,
          ifaceConfig, sessions, services, active, disk, locked, shutdown, lastOp,
          lastProcess, lastFirst>>

----------------------------------------------------------------------------
(* Bounds of the model *)

\* keys are 1..MaxKeys; the native key order of the store is the numeric order
MaxKeys == 3
\* requested sample sizes are 0..MaxCount
MaxCount == 3
\* a decoded record has at most MaxFields fields
MaxFields == 3
\* a DataService tracks at most MaxTemp temporary files before it is closed
MaxTemp == 2
\* the digests are drawn from 0..HashSpace-1 (the code's space is 0..2^64-1)
HashSpace == 4
\* the interface constructs at most MaxServices DataService objects that
\* come into use
MaxServices == 2

Keys == 1..MaxKeys
Counts == 0..MaxCount

----------------------------------------------------------------------------
(* Python floats: a finite value is the rational num/den (den > 0); the     *)
(* special values are +inf and nan.                                         *)

Fin(n, d) == [kind |-> "fin", num |-> n, den |-> d]
PInf == [kind |-> "inf", num |-> 1, den |-> 1]
NaN == [kind |-> "nan", num |-> 0, den |-> 1]

\* a < b on floats: FALSE as soon as one side is nan
FloatLt(a, b) ==
    CASE a.kind = "nan" \/ b.kind = "nan" -> FALSE
      [] a.kind = "inf" -> FALSE
      [] b.kind = "inf" -> TRUE
      [] OTHER -> a.num * b.den < b.num * a.den

\* max(a, b) of Python: b when b > a, else a (so max(1.0, nan) = 1.0)
PyMax(a, b) == IF FloatLt(a, b) THEN b ELSE a

\* min(a, b) of Python: b when b < a, else a (so min(1.0, nan) = 1.0)
PyMin(a, b) == IF FloatLt(b, a) THEN b ELSE a

\* n * x for an integer n >= 0: 0 * inf is nan
IntTimesFloat(n, x) ==
    CASE x.kind = "nan" -> NaN
      [] x.kind = "inf" -> IF n = 0 THEN NaN ELSE PInf
      [] OTHER -> Fin(n * x.num, x.den)

\* x / t for an integer t > 0
FloatDivInt(x, t) ==
    IF x.kind = "fin" THEN Fin(x.num, x.den * t) ELSE x

\* int(x) of a finite x >= 0: truncation
FloatToInt(x) == x.num \div x.den

\* the oversample factors a caller passes: below 1.0, 1.0, the default 3.0,
\* and the special values float("inf") and float("nan")
Factors == {Fin(1, 2), Fin(1, 1), Fin(3, 1), PInf, NaN}

----------------------------------------------------------------------------
(* Processor classes.  A class is what a plugin file defines: its          *)
(* constructor, the arguments its process method takes and what process    *)
(* returns are the plugin author's.                                        *)

NoClass == "NoClass"

Classes ==
    {"TextProcessor", "AudioProcessor", "ImageProcessor", "CustomProcessor",
     "BogusTypeProcessor", "NoTypeProcessor", "SkippingProcessor",
     "RaisingProcessor", "BadInitProcessor", "ConfigTextProcessor"}

\* the names processors are registered under (field or processor names)
Names == {"bio", "audio"}

\* __init__(config) of the class: returns or raises
CtorRaises(cls) == cls = "BadInitProcessor"

\* whether process of the class can be called with `nargs` arguments after
\* self: BaseFieldProcessor.process takes (field_name, value); the classes
\* of the register_decorator docstring take (field_name, value, config)
AcceptsArgs(cls, nargs) ==
    CASE cls = "TextProcessor" -> nargs = 2
      [] cls = "ConfigTextProcessor" -> nargs = 3
      [] OTHER -> nargs \in {2, 3}

\* what process of the class does: raise, return an empty dict, or return a
\* result dict with or without a type key and with or without a temp_path
ProcessBehaviour(cls) ==
    CASE cls \in {"TextProcessor", "ConfigTextProcessor"} ->
            [kind |-> "result", has_type |-> TRUE, type |-> "text", temp |-> FALSE]
      [] cls = "AudioProcessor" ->
            [kind |-> "result", has_type |-> TRUE, type |-> "audio", temp |-> TRUE]
      [] cls = "ImageProcessor" ->
            [kind |-> "result", has_type |-> TRUE, type |-> "image", temp |-> TRUE]
      [] cls = "CustomProcessor" ->
            [kind |-> "result", has_type |-> TRUE, type |-> "custom", temp |-> FALSE]
      [] cls = "BogusTypeProcessor" ->
            [kind |-> "result", has_type |-> TRUE, type |-> "bogus", temp |-> FALSE]
      [] cls = "NoTypeProcessor" ->
            [kind |-> "result", has_type |-> FALSE, type |-> "", temp |-> FALSE]
      [] cls = "SkippingProcessor" ->
            [kind |-> "empty", has_type |-> FALSE, type |-> "", temp |-> FALSE]
      [] OTHER ->
            [kind |-> "raise", has_type |-> FALSE, type |-> "", temp |-> FALSE]

----------------------------------------------------------------------------
(* Plugin files: whether the path exists, whether importlib builds a spec  *)
(* with a loader for it, the register calls its module body makes, and     *)
(* whether the body raises after them.                                     *)

Files == {"text.py", "media.py", "empty.py", "broken.py", "notes.txt", "missing.py"}

FileExists(f) == f # "missing.py"

FileHasSpec(f) == f # "notes.txt"

FileScript(f) ==
    CASE f = "text.py" -> << <<"bio", "TextProcessor">> >>
      [] f = "media.py" -> << <<"bio", "ConfigTextProcessor">>,
                              <<"audio", "AudioProcessor">> >>
      [] f = "broken.py" -> << <<"audio", "ImageProcessor">> >>
      [] OTHER -> << >>

FileBodyRaises(f) == f = "broken.py"

----------------------------------------------------------------------------
(* ProcessorRegistry *)

\* a plausible slip: a bound name keeps its first class
RegisterKeepFirst(reg, name, cls) ==
    IF reg[name] = NoClass THEN [reg EXCEPT ![name] = cls] ELSE reg

\* register: self._processors[name] = processor_class
RegistryPut(reg, name, cls) == [reg EXCEPT ![name] = cls]

\* list_processors: the keys of self._processors
ListProcessors(reg) == {n \in Names : reg[n] # NoClass}

RECURSIVE RegisterAll(_, _, _)
\* the register calls of a module body, in order, from position i on
RegisterAll(reg, script, i) ==
    IF i > Len(script) THEN reg
    ELSE RegisterAll(RegistryPut(reg, script[i][1], script[i][2]), script, i + 1)

RECURSIVE LastWriterAll(_, _, _)
\* history: the latest class each name of a module body was registered with
LastWriterAll(lw, script, i) ==
    IF i > Len(script) THEN lw
    ELSE LastWriterAll([lw EXCEPT ![script[i][1]] = script[i][2]], script, i + 1)

RECURSIVE RegisterNames(_, _, _, _)
\* for field_name in name: self.register(field_name, processor_class)
RegisterNames(reg, names, cls, i) ==
    IF i > Len(names) THEN reg
    ELSE RegisterNames(RegistryPut(reg, names[i], cls), names, cls, i + 1)

\* the arguments register_decorator is given: a string, a list of strings,
\* or something else (a tuple)
DecoratorArgs ==
    {[kind |-> "str", names |-> <<"bio">>],
     [kind |-> "list", names |-> << >>],
     [kind |-> "list", names |-> <<"audio">>],
     [kind |-> "list", names |-> <<"bio", "audio">>],
     [kind |-> "list", names |-> <<"audio", "audio">>],
     [kind |-> "tuple", names |-> <<"bio", "audio">>]}

\* the classes the decorator is applied to
DecoratedClasses == {"TextProcessor", "BadInitProcessor"}

\* a plausible slip: only the first name of a list is registered
DecoratorFirstNameOnly(reg, arg, cls) ==
    IF arg.kind \in {"str", "list"}
    THEN [reg |-> IF arg.names = << >> THEN reg
                  ELSE RegistryPut(reg, arg.names[1], cls),
          outcome |-> "returned", returned |-> cls]
    ELSE [reg |-> reg, outcome |-> "ValueError", returned |-> NoClass]

\* register_decorator(name)(processor_class): the registry after the
\* application, how it ended and the class it returned
RegisterDecorator(reg, arg, cls) ==
    IF arg.kind = "str"
    THEN [reg |-> RegistryPut(reg, arg.names[1], cls),
          outcome |-> "returned", returned |-> cls]
    ELSE IF arg.kind = "list"
    THEN [reg |-> RegisterNames(reg, arg.names, cls, 1),
          outcome |-> "returned", returned |-> cls]
    ELSE [reg |-> reg, outcome |-> "ValueError", returned |-> NoClass]

\* a plausible slip: the lookup error does not list the registered names
CreateProcessorNoList(reg, name) ==
    IF name \notin ListProcessors(reg)
    THEN [outcome |-> "DataProcessingError", cls |-> NoClass, available |-> {}]
    ELSE [outcome |-> IF CtorRaises(reg[name]) THEN "InitError" ELSE "instance",
          cls |-> reg[name], available |-> {}]

\* create_processor(name, config): the lookup error when the name is not
\* bound, else the class is instantiated (its constructor may raise)
CreateProcessor(reg, name) ==
    IF name \notin ListProcessors(reg)
    THEN [outcome |-> "DataProcessingError", cls |-> NoClass,
          available |-> ListProcessors(reg)]
    ELSE [outcome |-> IF CtorRaises(reg[name]) THEN "InitError" ELSE "instance",
          cls |-> reg[name], available |-> {}]

\* a plausible slip: the count is the number of register calls of the file
LoadFromFileCountsCalls(reg, f) ==
    IF ~FileExists(f)
    THEN [reg |-> reg, outcome |-> "FileNotFoundError", count |-> 0]
    ELSE IF ~FileHasSpec(f)
    THEN [reg |-> reg, outcome |-> "DataProcessingError", count |-> 0]
    ELSE IF FileBodyRaises(f)
    THEN [reg |-> RegisterAll(reg, FileScript(f), 1), outcome |-> "ModuleError",
          count |-> 0]
    ELSE [reg |-> RegisterAll(reg, FileScript(f), 1), outcome |-> "returned",
          count |-> Len(FileScript(f))]

\* load_from_file(path): the registry after the call, how the call ended
\* and the count it returned
LoadFromFile(reg, f) ==
    IF ~FileExists(f)
    THEN [reg |-> reg, outcome |-> "FileNotFoundError", count |-> 0]
    ELSE IF ~FileHasSpec(f)
    THEN [reg |-> reg, outcome |-> "DataProcessingError", count |-> 0]
    ELSE LET after == RegisterAll(reg, FileScript(f), 1)
         IN IF FileBodyRaises(f)
            THEN [reg |-> after, outcome |-> "ModuleError", count |-> 0]
            ELSE [reg |-> after, outcome |-> "returned",
                  count |-> Cardinality(ListProcessors(after))
                            - Cardinality(ListProcessors(reg))]

----------------------------------------------------------------------------
(* Decoded records and previews *)

\* the field names of the decoded records; "id" never has a processor
Fields == {"bio", "audio", "id"}

RECURSIVE DistinctSeqs(_, _)
\* the sequences of at most n distinct elements of S
DistinctSeqs(S, n) ==
    IF n = 0 \/ S = {} THEN {<< >>}
    ELSE {<< >>} \cup UNION {{<<x>> \o t : t \in DistinctSeqs(S \ {x}, n - 1)} : x \in S}

\* MessageToDict(message): the fields of a record, in message order
Records == DistinctSeqs(Fields, MaxFields)

\* the closed set of preview types of BaseFieldProcessor.process
PreviewTypes == {"text", "audio", "image", "custom"}

\* the dict a processor returned for a field; temp_path = 0: no such key
Preview(field, b, path) ==
    [field_name |-> field, has_type |-> b.has_type, type |-> b.type,
     temp_path |-> IF b.temp THEN path ELSE 0]

NoPreview == [field_name |-> "", has_type |-> FALSE, type |-> "", temp_path |-> 0]

\* create_processor(name, config) followed by process with `nargs`
\* arguments: the exception raised, or what process returned
InvokeProcessor(reg, name, nargs) ==
    LET c == CreateProcessor(reg, name)
        b == ProcessBehaviour(c.cls)
    IN CASE c.outcome # "instance" -> [kind |-> "raise", exc |-> c.outcome, b |-> b]
         [] ~AcceptsArgs(c.cls, nargs) -> [kind |-> "raise", exc |-> "TypeError", b |-> b]
         [] b.kind = "raise" -> [kind |-> "raise", exc |-> "RuntimeError", b |-> b]
         [] OTHER -> [kind |-> b.kind, exc |-> "none", b |-> b]

\* one step of the history of an aggregation: the field, what its processor
\* did and the dict it returned
Step(field, kind, exc, preview) ==
    [field |-> field, kind |-> kind, exc |-> exc, preview |-> preview]

----------------------------------------------------------------------------
(* DataService (lmdbug/core/data_service.py) *)

\* the processor_paths a DataService is constructed with; None is the default
NoPaths == <<"None">>

PathChoices == {NoPaths, <<"missing.py", "text.py">>, <<"broken.py", "empty.py">>}

RECURSIVE AutoLoadFrom(_, _, _)
\* the loop of _auto_load_processors from position i on: every exception of
\* load_from_file is caught, what the file registered before it stays
AutoLoadFrom(reg, paths, i) ==
    IF i > Len(paths) THEN reg
    ELSE AutoLoadFrom(IF FileExists(paths[i])
                      THEN LoadFromFile(reg, paths[i]).reg
                      ELSE reg,
                      paths, i + 1)

\* _auto_load_processors: iterating processor_paths = None raises TypeError
AutoLoadProcessors(reg, paths) ==
    IF paths = NoPaths
    THEN [reg |-> reg, outcome |-> "TypeError"]
    ELSE [reg |-> AutoLoadFrom(reg, paths, 1), outcome |-> "returned"]

\* a plausible slip: only ValueError is caught around a processor
CatchesOnlyValueError(exc) == exc = "ValueError"

\* `except Exception` of _process_field
ProcessFieldCatches(exc) == TRUE

\* _process_field(field_name, value, processor_registry)
ProcessField(reg, field) ==
    IF field \notin ListProcessors(reg)
    THEN [kind |-> "no-processor", exc |-> "none", b |-> ProcessBehaviour(NoClass)]
    ELSE LET r == InvokeProcessor(reg, field, 2)
         IN IF r.kind = "raise" /\ ~ProcessFieldCatches(r.exc)
            THEN [r EXCEPT !.kind = "propagate"]
            ELSE r

\* media_previews = {"text": [], "audio": [], "image": []}
DataBuckets == [t \in {"text", "audio", "image"} |-> << >>]

\* valid_types = set(media_previews.keys())
valid_types == DOMAIN DataBuckets

\* a plausible slip: the type is not validated
TypeUnchecked(t) == TRUE

\* `preview_type not in valid_types` is the error case
TypeValid(t) == t \in valid_types

\* {k: v for k, v in media_previews.items() if v}
FilterBuckets(media) ==
    [t \in {u \in DOMAIN media : media[u] # << >>} |-> media[t]]

RECURSIVE AggregateFrom(_, _, _, _, _, _)

\* the body of the loop of _add_media_preview for field i, whose
\* _process_field call gave r (and the dict pr)
AggregateStep(reg, fields, i, media, temp_files, trace, r, pr) ==
    CASE r.kind = "propagate" ->
            [outcome |-> r.exc, media |-> media, temp_files |-> temp_files,
             trace |-> Append(trace, Step(fields[i], r.kind, r.exc, NoPreview))]
      [] r.kind # "result" ->
            AggregateFrom(reg, fields, i + 1, media, temp_files,
                          Append(trace, Step(fields[i], r.kind, r.exc, NoPreview)))
      [] ~pr.has_type \/ ~TypeValid(pr.type) ->
            [outcome |-> "DataProcessingError", media |-> media,
             temp_files |-> temp_files,
             trace |-> Append(trace, Step(fields[i], r.kind, r.exc, pr))]
      [] OTHER ->
            AggregateFrom(reg, fields, i + 1,
                IF pr.type \in DOMAIN media
                THEN [media EXCEPT ![pr.type] = Append(@, pr)]
                ELSE media,
                IF pr.temp_path # 0
                THEN Append(temp_files, pr.temp_path)
                ELSE temp_files,
                Append(trace, Step(fields[i], r.kind, r.exc, pr)))

\* the dict of a _process_field call; a temporary file gets a fresh path
PreviewOf(field, r, temp_files) == Preview(field, r.b, Len(temp_files) + 1)

\* the loop of _add_media_preview over the fields from position i on
AggregateFrom(reg, fields, i, media, temp_files, trace) ==
    IF i > Len(fields)
    THEN [outcome |-> "returned", media |-> media, temp_files |-> temp_files,
          trace |-> trace]
    ELSE AggregateStep(reg, fields, i, media, temp_files, trace,
                       ProcessField(reg, fields[i]),
                       PreviewOf(fields[i], ProcessField(reg, fields[i]), temp_files))

\* the end of _add_media_preview: empty categories are filtered out and
\* result["media_preview"] is set when a category is left
SetMediaPreview(reg, a, filtered) ==
    [reg |-> reg, outcome |-> a.outcome,
     has_media |-> (a.outcome = "returned" /\ DOMAIN filtered # {}),
     media |-> IF a.outcome = "returned" /\ DOMAIN filtered # {}
               THEN filtered ELSE << >>,
     temp_files |-> a.temp_files, trace |-> a.trace]

\* _add_media_preview after the auto-load al
AggregateAfterLoad(al, temp_files, fields) ==
    IF al.outcome # "returned"
    THEN [reg |-> al.reg, outcome |-> al.outcome, has_media |-> FALSE,
          media |-> << >>, temp_files |-> temp_files, trace |-> << >>]
    ELSE SetMediaPreview(al.reg,
            AggregateFrom(al.reg, fields, 1, DataBuckets, temp_files, << >>),
            FilterBuckets(AggregateFrom(al.reg, fields, 1, DataBuckets,
                                        temp_files, << >>).media))

\* a plausible slip: the configured paths are loaded on every aggregation
AddMediaPreviewAlwaysLoads(reg, paths, temp_files, fields) ==
    AggregateAfterLoad(AutoLoadProcessors(reg, paths), temp_files, fields)

\* _add_media_preview(result, protobuf_dict): the registry and temp_files
\* after the call, how it ended, and result["media_preview"] when it was set
AddMediaPreview(reg, paths, temp_files, fields) ==
    AggregateAfterLoad(IF ListProcessors(reg) = {}
                       THEN AutoLoadProcessors(reg, paths)
                       ELSE [reg |-> reg, outcome |-> "returned"],
                       temp_files, fields)

\* `except Exception` of _format_entry
FormatEntryCatches(exc) == TRUE

NoEntry ==
    [service |-> "none", outcome |-> "none", has_protobuf |-> FALSE,
     protobuf_error |-> "none", agg |-> "not-called", has_media |-> FALSE,
     media |-> << >>, trace |-> << >>]

\* result after result["protobuf"] is set and _add_media_preview ended as
\* a says: an exception becomes result["protobuf_error"]
EntryAfterAggregation(e, a) ==
    [entry |-> IF a.outcome = "returned" THEN e
               ELSE IF FormatEntryCatches(a.outcome)
               THEN [e EXCEPT !.protobuf_error = a.outcome]
               ELSE [e EXCEPT !.outcome = a.outcome],
     reg |-> a.reg, temp_files |-> a.temp_files]

DataEntry == [NoEntry EXCEPT !.service = "data", !.outcome = "returned"]

DecodedEntry(a) ==
    [DataEntry EXCEPT !.has_protobuf = TRUE, !.agg = a.outcome,
                      !.has_media = a.has_media, !.media = a.media,
                      !.trace = a.trace]

\* _format_entry(key_bytes, value_bytes): the entry, and the registry and
\* temp_files after the call
FormatEntry(reg, s, decodes, fields) ==
    IF ~s.protobuf
    THEN [entry |-> DataEntry, reg |-> reg, temp_files |-> s.temp_files]
    ELSE IF ~decodes
    THEN [entry |-> [DataEntry EXCEPT !.protobuf_error = "DecodeError"],
          reg |-> reg, temp_files |-> s.temp_files]
    ELSE EntryAfterAggregation(
            DecodedEntry(AddMediaPreview(reg, s.processor_paths, s.temp_files, fields)),
            AddMediaPreview(reg, s.processor_paths, s.temp_files, fields))

----------------------------------------------------------------------------
(* ProtobufHandler and PreviewService (lmdbug/core/protobuf_handler.py,    *)
(* lmdbug/core/preview_service.py)                                         *)

\* a field_config: field name -> processor name, in the order of the dict
ConfigChoices ==
    {<< >>,
     << <<"bio", "bio">>, <<"audio", "audio">> >>,
     << <<"audio", "bio">>, <<"id", "unknown">>, <<"bio", "audio">> >>}

\* media_previews = {"text": [], "audio": [], "image": [], "custom": []}
HandlerBuckets == [t \in PreviewTypes |-> << >>]

\* `except ValueError` and `except Exception` of process_media_fields
HandlerCatches(exc) == TRUE

SeqRange(q) == {q[i] : i \in 1..Len(q)}

RECURSIVE HandlerFrom(_, _, _, _, _, _)

\* result.get("type", "custom"), and "custom" for a type that is no bucket
BucketOf(pr, media) ==
    IF pr.has_type /\ pr.type \in DOMAIN media THEN pr.type ELSE "custom"

\* the body of the loop of process_media_fields for the configured field i
\* of the record, whose processor gave r (and the dict pr)
HandlerStep(reg, fields, config, i, media, trace, r, pr) ==
    CASE r.kind = "raise" /\ ~HandlerCatches(r.exc) ->
            [outcome |-> r.exc, media |-> media,
             trace |-> Append(trace, Step(config[i][1], r.kind, r.exc, NoPreview))]
      [] r.kind # "result" ->
            HandlerFrom(reg, fields, config, i + 1, media,
                        Append(trace, Step(config[i][1], r.kind, r.exc, NoPreview)))
      [] OTHER ->
            HandlerFrom(reg, fields, config, i + 1,
                        [media EXCEPT ![BucketOf(pr, media)] = Append(@, pr)],
                        Append(trace, Step(config[i][1], r.kind, r.exc, pr)))

\* create_processor(processor_name, processor_config) and process(field_name,
\* field_value, processor_config); a name outside the registry's names is
\* not found
HandlerInvoke(reg, pname) ==
    IF pname \in Names
    THEN InvokeProcessor(reg, pname, 3)
    ELSE [kind |-> "raise", exc |-> "DataProcessingError",
          b |-> ProcessBehaviour(NoClass)]

\* the loop of process_media_fields over the configured fields from
\* position i on; a configured field the record lacks is skipped
HandlerFrom(reg, fields, config, i, media, trace) ==
    IF i > Len(config)
    THEN [outcome |-> "returned", media |-> media, trace |-> trace]
    ELSE IF config[i][1] \notin SeqRange(fields)
    THEN HandlerFrom(reg, fields, config, i + 1, media, trace)
    ELSE HandlerStep(reg, fields, config, i, media, trace,
                     HandlerInvoke(reg, config[i][2]),
                     Preview(config[i][1], HandlerInvoke(reg, config[i][2]).b, i))

\* process_media_fields(data_dict, field_config)
ProcessMediaFields(reg, fields, config) ==
    HandlerFrom(reg, fields, config, 1, HandlerBuckets, << >>)

\* any(media_previews.values())
AnyBucket(media) == \E t \in DOMAIN media : media[t] # << >>

PreviewEntry == [NoEntry EXCEPT !.service = "preview", !.outcome = "returned"]

\* result after process_media_fields ended as a says: the whole
\* media_previews dict is stored when a category is not empty
InfoAfterAggregation(a) ==
    [PreviewEntry EXCEPT
        !.has_protobuf = TRUE, !.agg = a.outcome, !.trace = a.trace,
        !.protobuf_error = IF a.outcome # "returned" THEN a.outcome ELSE "none",
        !.has_media = (a.outcome = "returned" /\ AnyBucket(a.media)),
        !.media = IF a.outcome = "returned" /\ AnyBucket(a.media)
                  THEN a.media ELSE << >>]

\* _format_value with _add_protobuf_info(result, value_bytes, message_type)
AddProtobufInfo(reg, p, decodes, fields) ==
    IF ~p.loaded THEN PreviewEntry
    ELSE IF ~decodes THEN [PreviewEntry EXCEPT !.protobuf_error = "ProtobufError"]
    ELSE IF p.field_config = << >> THEN [PreviewEntry EXCEPT !.has_protobuf = TRUE]
    ELSE InfoAfterAggregation(ProcessMediaFields(reg, fields, p.field_config))

\* the services of the other specifications: constructed, nothing loaded
ServiceStart ==
    /\ variant = "data"
    /\ svc = [protobuf |-> FALSE, temp_files |-> << >>, processor_paths |-> NoPaths]
    /\ pv = [loaded |-> FALSE, field_config |-> << >>]
    /\ lastEntry = NoEntry

----------------------------------------------------------------------------
(* LmdbugInterface (lmdbug/ui/gradio_interface.py): sessions, the          *)
(* DataService of each and the temporary files of the previews             *)

\* the browser sessions the interface serves, each with its own
\* InterfaceSession state
SessionIds == {"s1", "s2"}
ServiceIds == 1..MaxServices

\* InterfaceSession.service = None
NoService == 0

\* the k-th temporary file a processor wrote for service sv: the names of
\* tempfile.NamedTemporaryFile are fresh
TempPath(sv, k) == <<sv, k>>

\* the entries of a store: whether the value decodes, and the fields of
\* the decoded record
StoreChoices ==
    {<< >>,
     << [decodes |-> TRUE, fields |-> <<"bio">>] >>,
     << [decodes |-> TRUE, fields |-> <<"audio", "bio">>],
        [decodes |-> FALSE, fields |-> << >>] >>}

\* a DataService that was not constructed yet
NoDataService ==
    [state |-> "unborn", protobuf |-> FALSE, temp_files |-> << >>,
     processor_paths |-> NoPaths, entries |-> << >>]

\* InterfaceSession(): service = None, results = []
NewSession == [service |-> NoService, results |-> << >>]

NoOp == [op |-> "none", outcome |-> "none"]

\* no field processor was called and no first entries were read yet
NoProcess == [processor |-> "none", outcome |-> "none"]

NoFirst ==
    [reader |-> "none", body |-> "none", outcome |-> "none", n |-> 0, result |-> << >>,
     opened |-> FALSE]

ProbeStart == lastProcess = NoProcess /\ lastFirst = NoFirst

\* the state of the interface apart from its config: no session has loaded a database
InterfaceStart ==
    /\ sessions = [u \in SessionIds |-> NewSession]
    /\ services = [sv \in ServiceIds |-> NoDataService]
    /\ active = {}
    /\ disk = {}
    /\ locked = {}
    /\ shutdown = FALSE
    /\ lastOp = NoOp

\* LmdbugInterface(config=None)
SessionStart == ifaceConfig = NoPaths /\ InterfaceStart

\* Path(path).unlink(missing_ok=True): a missing file is no error, a file
\* that cannot be deleted raises
Unlink(path, dsk, lck) ==
    IF path \in dsk /\ path \in lck THEN "PermissionError" ELSE "ok"

\* the files left after unlink was tried on path
Unlinked(path, dsk, lck) == IF path \in lck THEN dsk ELSE dsk \ {path}

\* a plausible slip: a failing deletion is not caught
CleanupCatchesNothing(exc) == FALSE

\* `except Exception` around the unlink of cleanup_temp_files
CleanupCatches(exc) == TRUE

RECURSIVE CleanupFrom(_, _, _, _, _)
\* DataService.cleanup_temp_files of service sv from position i on: the
\* files left, how the call ended and self.temp_files after it (cleared
\* when the loop ends)
CleanupFrom(sv, temp_files, i, dsk, lck) ==
    IF i > Len(temp_files)
    THEN [disk |-> dsk, outcome |-> "returned", temp_files |-> << >>]
    ELSE IF /\ Unlink(TempPath(sv, temp_files[i]), dsk, lck) # "ok"
            /\ ~CleanupCatches(Unlink(TempPath(sv, temp_files[i]), dsk, lck))
    THEN [disk |-> dsk, outcome |-> Unlink(TempPath(sv, temp_files[i]), dsk, lck),
          temp_files |-> temp_files]
    ELSE CleanupFrom(sv, temp_files, i + 1,
                     Unlinked(TempPath(sv, temp_files[i]), dsk, lck), lck)

\* DataService.cleanup_temp_files
CleanupTempFiles(sv, srec, dsk, lck) == CleanupFrom(sv, srec.temp_files, 1, dsk, lck)

\* DataService.close after its cleanup_temp_files call ended as c says: the
\* reader is closed first; of a closed service only the state and the
\* tracked files are kept
ClosedService(srec, c) ==
    [service |-> [NoDataService EXCEPT !.state = "closed", !.temp_files = c.temp_files],
     disk |-> c.disk, outcome |-> c.outcome]

\* DataService.close
CloseService(sv, srec, dsk, lck) ==
    ClosedService(srec, CleanupTempFiles(sv, srec, dsk, lck))

\* no path: an empty string in the list given to the handler's cleanup
NoPath == << >>

\* `except Exception` of ProtobufHandler.cleanup_temp_files
HandlerCleanupCatches(exc) == TRUE

RECURSIVE HandlerCleanupFrom(_, _, _, _)
\* ProtobufHandler.cleanup_temp_files(temp_paths) from position i on: an
\* empty path and a missing file are skipped, a failing unlink is logged
HandlerCleanupFrom(paths, i, dsk, lck) ==
    IF i > Len(paths) THEN [disk |-> dsk, outcome |-> "returned"]
    ELSE IF paths[i] = NoPath \/ paths[i] \notin dsk
    THEN HandlerCleanupFrom(paths, i + 1, dsk, lck)
    ELSE IF Unlink(paths[i], dsk, lck) # "ok"
            /\ ~HandlerCleanupCatches(Unlink(paths[i], dsk, lck))
    THEN [disk |-> dsk, outcome |-> Unlink(paths[i], dsk, lck)]
    ELSE HandlerCleanupFrom(paths, i + 1, Unlinked(paths[i], dsk, lck), lck)

\* what the interface keeps of a formatted entry: its position in the
\* store and the temp_path values of its previews
ResultOf(sv, pos, e) ==
    [key |-> pos,
     temp_paths |-> IF ~e.has_media THEN {}
                    ELSE {TempPath(sv, e.media[t][j].temp_path) :
                            <<t, j>> \in {x \in (DOMAIN e.media) \X (1..MaxFields) :
                                            /\ x[2] <= Len(e.media[x[1]])
                                            /\ e.media[x[1]][x[2]].temp_path # 0}}]

RECURSIVE FormatEntries(_, _, _, _, _, _)

\* the list comprehension of get_first_entries and search_keys after the
\* _format_entry call on position idx[i] gave r
FormattedNext(reg, sv, srec, idx, i, acc, r) ==
    FormatEntries(r.reg, sv, [srec EXCEPT !.temp_files = r.temp_files], idx, i + 1,
                  Append(acc, ResultOf(sv, idx[i], r.entry)))

\* [self._format_entry(k, v) for k, v in entries] over the store positions
\* idx, from position i on
FormatEntries(reg, sv, srec, idx, i, acc) ==
    IF i > Len(idx)
    THEN [outcome |-> "returned", results |-> acc, reg |-> reg, service |-> srec]
    ELSE FormattedNext(reg, sv, srec, idx, i, acc,
                       FormatEntry(reg, srec, srec.entries[idx[i]].decodes,
                                   srec.entries[idx[i]].fields))

\* the positions of the first count of the matching positions
\* (islice over the cursor)
FirstOf(matching, count) ==
    [i \in 1..Cardinality({k \in matching : Cardinality({m \in matching : m < k}) < count})
        |-> CHOOSE k \in matching : Cardinality({m \in matching : m < k}) = i - 1]

\* DataService.get_first_entries(count) / search_keys(pattern, count) when
\* the pattern matches the positions `matching`: _ensure_open raises on a
\* closed reader
FormattedEntries(reg, sv, srec, matching, count) ==
    IF srec.state # "open"
    THEN [outcome |-> "DatabaseError", results |-> << >>, reg |-> reg, service |-> srec]
    ELSE FormatEntries(reg, sv, srec, FirstOf(matching, count), 1, << >>)

\* the temporary files the processors wrote while temp_files grew from
\* before to after
Written(sv, before, after) ==
    {TempPath(sv, after[j]) : j \in (Len(before) + 1)..Len(after)}

NoDecorate == [outcome |-> "none", arg |-> [kind |-> "none", names |-> << >>],
               cls |-> NoClass, returned |-> NoClass]

NoCreate ==
    [outcome |-> "none", name |-> "", cls |-> NoClass, available |-> {},
     writer |-> NoClass]

NoLoad == [outcome |-> "none", file |-> "", count |-> 0, before |-> {}]

\* the registry of a fresh process: ProcessorRegistry.__init__
RegistryStart ==
    /\ registry = [n \in Names |-> NoClass]
    /\ lastWriter = [n \in Names |-> NoClass]
    /\ lastCreate = NoCreate
    /\ lastLoad = NoLoad
    /\ lastDecorate = NoDecorate

----------------------------------------------------------------------------
(* LMDBReader *)

\* the value stored under a key (opaque bytes for the reader)
ValueOf(k) == k + 100

Entry(k) == <<k, ValueOf(k)>>

RECURSIVE SortedSeq(_)
\* the keys of S in native (ascending) order
SortedSeq(S) ==
    IF S = {} THEN << >>
    ELSE LET m == CHOOSE x \in S : \A y \in S : x <= y
         IN <<m>> \o SortedSeq(S \ {m})

\* a plausible slip: the largest digest instead of the size of the space
MaxU64OffByOne == HashSpace - 1

\* 1 << 64 of the code, scaled to the digests of the model
max_u64 == HashSpace

\* int.from_bytes(blake2b(key, digest_size=8).digest(), "big")
KeyHash(k) == hashOf[k]

\* p = min(1.0, count * max(1.0, oversample_factor) / total);
\* threshold = int(p * max_u64)
Threshold(count, factor, total) ==
    LET oversample == PyMax(Fin(1, 1), factor)
        p == PyMin(Fin(1, 1), FloatDivInt(IntTimesFloat(count, oversample), total))
    IN FloatToInt(Fin(p.num * max_u64, p.den))

\* `if h < threshold`
Included(h, threshold) == h < threshold

\* a plausible slip: the scan goes on until more than count were collected
ScanDoneStrict(results, count) == Len(results) > count

\* `if len(results) >= count: return results`
ScanDone(results, count) == Len(results) >= count

\* a plausible slip: the list of a previous call is reused
StaleResults == lastSample.result

\* `results = []` at the start of a call
InitialResults == << >>

RECURSIVE Scan(_, _, _, _)
\* the cursor loop from position i on: the collected entries, how many
\* entries the cursor visited, and whether the loop returned early
Scan(i, results, count, threshold) ==
    IF i > Len(store)
    THEN [results |-> results, examined |-> Len(store), early |-> FALSE]
    ELSE LET k == store[i]
             r1 == IF Included(KeyHash(k), threshold)
                   THEN Append(results, Entry(k))
                   ELSE results
         IN IF ScanDone(r1, count)
            THEN [results |-> r1, examined |-> i, early |-> TRUE]
            ELSE Scan(i + 1, r1, count, threshold)

\* a plausible slip: an empty store reported as a database error
EmptyStoreRaises == [outcome |-> "DatabaseError", result |-> << >>]

\* a call on an empty store: the error is logged and `return results`
EmptyStoreOutcome == [outcome |-> "ok", result |-> InitialResults]

NoSample ==
    [outcome |-> "none", count |-> 0, factor |-> NaN, result |-> << >>,
     examined |-> 0, log |-> "none", repeated |-> FALSE, opened |-> FALSE,
     threshold |-> 0]

\* get_random_entries_keyhash(count, oversample_factor)
Sampled(count, factor) ==
    LET total == Len(store)
        rep == /\ lastSample.outcome = "ok"
               /\ lastSample.count = count
               /\ lastSample.factor = factor
        base == [NoSample EXCEPT !.count = count, !.factor = factor,
                                 !.repeated = rep, !.opened = env]
    IN IF ~env
       THEN [base EXCEPT !.outcome = "DatabaseError", !.log = "error",
                         !.repeated = FALSE]
       ELSE IF total = 0
       THEN [base EXCEPT !.outcome = EmptyStoreOutcome.outcome,
                         !.result = EmptyStoreOutcome.result,
                         !.log = "error"]
       ELSE LET s == Scan(1, InitialResults, count,
                          Threshold(count, factor, total))
            IN [base EXCEPT !.outcome = "ok", !.result = s.results,
                            !.examined = s.examined,
                            !.log = IF s.early THEN "none" ELSE "warning",
                            !.threshold = Threshold(count, factor, total)]

\* LMDBReader.open
ReaderOpen ==
    /\ env' = TRUE
    /\ UNCHANGED <<probeVars, sessionVars, store, hashOf, lastSample, registryVars, serviceVars>>

\* LMDBReader.close
ReaderClose ==
    /\ env' = FALSE
    /\ UNCHANGED <<probeVars, sessionVars, store, hashOf, lastSample, registryVars, serviceVars>>

GetRandomEntriesKeyhash ==
    \E count \in Counts, factor \in Factors :
        /\ lastSample' = Sampled(count, factor)
        /\ UNCHANGED <<probeVars, sessionVars, env, store, hashOf, registryVars, serviceVars>>

\* a store is a set of keys in key order; every key has one fixed digest
SamplerInit ==
    /\ RegistryStart
    /\ ServiceStart
    /\ SessionStart
    /\ ProbeStart
    /\ env = FALSE
    /\ \E S \in SUBSET Keys :
        /\ store = SortedSeq(S)
        /\ hashOf \in [Keys -> 0..(HashSpace - 1)]
        /\ \A k \in Keys \ S : hashOf[k] = 0
    /\ lastSample = NoSample

SamplerNext ==
    \/ ReaderOpen
    \/ ReaderClose
    \/ GetRandomEntriesKeyhash

SpecSampler == SamplerInit /\ [][SamplerNext]_vars

----------------------------------------------------------------------------
(* Claims about the sampler, checked under SpecSampler *)

\* every entry of the store, once each, in key order
AllEntries == [i \in 1..Len(store) |-> Entry(store[i])]

\* C1: a completed call returns at most `count` entries, and no entry at
\* all when count = 0, whatever the oversample factor.
C1_SampleBound ==
    lastSample.outcome = "ok" =>
        /\ Len(lastSample.result) <= lastSample.count
        /\ (lastSample.count = 0 => lastSample.result = << >>)

\* C2: sampling is deterministic: a call that repeats the count and the
\* oversample factor of the call before it, on the same store, returns the
\* same list.
C2_SamplingDeterministic ==
    [][(/\ lastSample.outcome = "ok"
        /\ lastSample'.outcome = "ok"
        /\ lastSample'.count = lastSample.count
        /\ lastSample'.factor = lastSample.factor)
       => lastSample'.result = lastSample.result]_vars

\* a repeated call that returned something
C2_Witness ==
    /\ lastSample.outcome = "ok"
    /\ lastSample.repeated
    /\ lastSample.result # << >>
    /\ Len(lastSample.result) < Len(store)

\* count * factor >= total, on floats
CountTimesFactorCovers(count, factor, total) ==
    LET x == IntTimesFloat(count, factor)
    IN x.kind # "nan" /\ ~FloatLt(x, Fin(total, 1))

\* C3: on a store of T >= 1 entries, a call with count >= T and
\* count * oversample_factor >= T returns all T entries, once each, in key
\* order.
C3_SmallStoreReturnsAll ==
    (/\ lastSample.outcome = "ok"
     /\ Len(store) >= 1
     /\ lastSample.count >= Len(store)
     /\ CountTimesFactorCovers(lastSample.count, lastSample.factor, Len(store)))
    => lastSample.result = AllEntries

\* a store of three entries sampled with count = 3 and the default factor
C3_Witness ==
    /\ lastSample.outcome = "ok"
    /\ Len(store) = MaxKeys
    /\ lastSample.count >= Len(store)
    /\ lastSample.factor = Fin(3, 1)
    /\ lastSample.result = AllEntries

\* C4: on an opened store with no entry the call returns the empty list and
\* does not raise, for every count and oversample factor.
C4_EmptyStore ==
    (/\ lastSample.outcome # "none"
     /\ lastSample.opened
     /\ Len(store) = 0)
    => (lastSample.outcome = "ok" /\ lastSample.result = << >>)

\* a call with a positive count on an opened empty store
C4_Witness ==
    /\ lastSample.outcome = "ok"
    /\ lastSample.opened
    /\ Len(store) = 0
    /\ lastSample.count > 0
    /\ lastSample.factor = PInf

\* the positions of the store whose key hash is below the threshold
BelowThreshold == {i \in 1..Len(store) : KeyHash(store[i]) < lastSample.threshold}

\* the entries whose key hash is below the threshold, in key order
Filtered ==
    [j \in 1..Cardinality(BelowThreshold) |-> Entry(store[SortedSeq(BelowThreshold)[j]])]

\* the shorter of the requested count and what the filter lets through
Wanted == IF lastSample.count < Len(Filtered) THEN lastSample.count ELSE Len(Filtered)

\* C21: on a non-empty store the result is exactly the first `count`
\* entries, in key order, of the entries whose key hash is below the
\* threshold; once `count` entries are collected no later entry is examined,
\* and no entry whose hash is at or above the threshold is returned.
C21_FirstCountBelowThreshold ==
    (lastSample.outcome = "ok" /\ Len(store) >= 1) =>
        /\ lastSample.result = SubSeq(Filtered, 1, Wanted)
        /\ \A j \in 1..Len(lastSample.result) :
                KeyHash(lastSample.result[j][1]) < lastSample.threshold
        /\ (lastSample.count >= 1 /\ Len(Filtered) >= lastSample.count) =>
                lastSample.examined = SortedSeq(BelowThreshold)[lastSample.count]

\* n * x on the extended reals: zero times anything is zero
ExactTimes(n, x) ==
    CASE n = 0 -> Fin(0, 1)
      [] x.kind = "inf" -> PInf
      [] OTHER -> Fin(n * x.num, x.den)

\* max(1, f) of a factor that is a number
ExactFactor(f) ==
    IF f.kind = "fin" /\ f.num <= f.den THEN Fin(1, 1) ELSE f

\* floor(min(1, count * max(1, f) / T) * 2^64), in exact arithmetic
ExactThreshold(count, f, total) ==
    LET x == ExactTimes(count, ExactFactor(f))
    IN IF x.kind = "inf" \/ x.num >= total * x.den
       THEN max_u64
       ELSE (x.num * max_u64) \div (x.den * total)

\* C22: for every count >= 0, store size T >= 1 and factor f that is a
\* number, the threshold equals floor(min(1, count * max(1, f) / T) * 2^64):
\* it lies in [0, 2^64] and is 2^64 whenever count * max(1, f) >= T.
C22_ThresholdFormula ==
    (lastSample.outcome = "ok" /\ Len(store) >= 1 /\ lastSample.factor.kind # "nan") =>
        /\ lastSample.threshold \in 0..max_u64
        /\ lastSample.threshold =
                ExactThreshold(lastSample.count, lastSample.factor, Len(store))

\* C23: on a non-empty store the under-full warning is logged exactly when
\* the returned list is shorter than count; the call returns what it
\* collected either way.
C23_WarningIffShort ==
    (lastSample.outcome = "ok" /\ Len(store) >= 1) =>
        (lastSample.log = "warning" <=> Len(lastSample.result) < lastSample.count)

\* a completed scan that collected one entry of the two asked for
C23_Witness ==
    /\ lastSample.outcome = "ok"
    /\ lastSample.log = "warning"
    /\ Len(store) = MaxKeys
    /\ lastSample.count = 2
    /\ Len(lastSample.result) = 1
    /\ lastSample.examined = Len(store)

----------------------------------------------------------------------------
(* Registry operations *)

\* processor_registry.register(name, processor_class)
Register ==
    \E name \in Names, cls \in Classes :
        /\ registry' = RegistryPut(registry, name, cls)
        /\ lastWriter' = [lastWriter EXCEPT ![name] = cls]
        /\ lastEntry' = NoEntry
        /\ UNCHANGED <<probeVars, sessionVars, lastCreate, lastLoad, samplerVars, variant, svc, pv>>
        /\ lastDecorate' = NoDecorate

\* processor_registry.create_processor(name)
Create ==
    \E name \in Names :
        LET r == CreateProcessor(registry, name)
        IN /\ lastCreate' = [outcome |-> r.outcome, name |-> name,
                             cls |-> r.cls, available |-> r.available,
                             writer |-> lastWriter[name]]
           /\ UNCHANGED <<probeVars, sessionVars, registry, lastWriter, lastLoad, lastDecorate,
                        samplerVars, serviceVars>>

\* @processor_registry.register_decorator(name) on a class definition
Decorate ==
    \E arg \in DecoratorArgs, cls \in DecoratedClasses :
        \E r \in {RegisterDecorator(registry, arg, cls)} :
            /\ registry' = r.reg
            /\ lastWriter' = IF r.outcome = "returned"
                             THEN [n \in Names |->
                                     IF \E i \in 1..Len(arg.names) : arg.names[i] = n
                                     THEN cls ELSE lastWriter[n]]
                             ELSE lastWriter
            /\ lastDecorate' = [outcome |-> r.outcome, arg |-> arg, cls |-> cls,
                                returned |-> r.returned]
            /\ UNCHANGED <<probeVars, sessionVars, lastCreate, lastLoad, samplerVars, serviceVars>>

\* processor_registry.load_from_file(path)
Load ==
    \E f \in Files :
        LET r == LoadFromFile(registry, f)
        IN /\ registry' = r.reg
           /\ lastWriter' = IF FileExists(f) /\ FileHasSpec(f)
                            THEN LastWriterAll(lastWriter, FileScript(f), 1)
                            ELSE lastWriter
           /\ lastLoad' = [outcome |-> r.outcome, file |-> f, count |-> r.count,
                           before |-> ListProcessors(registry)]
           /\ lastDecorate' = NoDecorate
           /\ UNCHANGED <<probeVars, sessionVars, lastCreate, samplerVars, serviceVars>>

SamplerStart ==
    /\ env = FALSE
    /\ store = << >>
    /\ hashOf = [k \in Keys |-> 0]
    /\ lastSample = NoSample

RegistryInit ==
    RegistryStart /\ SamplerStart /\ ServiceStart /\ SessionStart /\ ProbeStart

RegistryNext ==
    \/ Register
    \/ Decorate
    \/ Create
    \/ Load

SpecRegistry == RegistryInit /\ [][RegistryNext]_vars

----------------------------------------------------------------------------
(* Claims about the registry, checked under SpecRegistry *)

\* C10: last writer wins: create_processor(name) instantiates the class of
\* the most recent register call for the name (lastCreate.writer, taken from
\* the history of register calls when create_processor ran), and a register
\* call on a bound name never fails: the registry always holds the class of
\* the latest call.
C10_LastWriterWins ==
    /\ \A n \in Names : registry[n] = lastWriter[n]
    /\ (lastCreate.outcome \in {"instance", "InitError"} =>
            lastCreate.cls = lastCreate.writer)
    /\ (lastCreate.outcome = "DataProcessingError" =>
            lastCreate.writer = NoClass)

\* a name bound by a plugin file, registered again with another class, then
\* created
C10_Witness ==
    /\ lastLoad.outcome = "returned"
    /\ lastLoad.file = "text.py"
    /\ lastCreate.outcome = "instance"
    /\ lastCreate.name = "bio"
    /\ lastCreate.cls = "CustomProcessor"
    /\ registry["bio"] = "CustomProcessor"

\* the names bound by the register calls made so far
RegisteredSoFar == {n \in Names : lastWriter[n] # NoClass}

\* C11: a create_processor call on a name that is not registered ends with
\* the lookup error ("Processor ... not found. Available: [...]"), the list
\* in the error is exactly the set of names registered when the call was
\* made, and the call leaves the registry as it was.
C11_NotFoundListsNames ==
    [][(lastCreate' # lastCreate /\ lastCreate'.name \notin RegisteredSoFar)
        => /\ lastCreate'.outcome = "DataProcessingError"
           /\ lastCreate'.available = RegisteredSoFar
           /\ registry' = registry]_vars

\* the lookup of "audio" failed while "bio" was the one registered name
C11_Witness ==
    /\ lastCreate.outcome = "DataProcessingError"
    /\ lastCreate.name = "audio"
    /\ lastCreate.available = {"bio"}
    /\ registry["bio"] # NoClass
    /\ registry["audio"] = NoClass

\* C16: after register_decorator with a list of names is applied to a
\* class, every name of the list is in list_processors() and bound to that
\* class, create_processor on each name instantiates that class (an
\* instance unless the constructor of the class raises), and the decorator
\* returns the class it was given.
C16_ListBindsEveryName ==
    (lastDecorate.arg.kind = "list") =>
        /\ lastDecorate.outcome = "returned"
        /\ lastDecorate.returned = lastDecorate.cls
        /\ \A i \in 1..Len(lastDecorate.arg.names) :
            /\ lastDecorate.arg.names[i] \in ListProcessors(registry)
            /\ registry[lastDecorate.arg.names[i]] = lastDecorate.cls
            /\ CreateProcessor(registry, lastDecorate.arg.names[i]).cls = lastDecorate.cls
            /\ (~CtorRaises(lastDecorate.cls) =>
                    CreateProcessor(registry, lastDecorate.arg.names[i]).outcome = "instance")

\* a class decorated with a list of two names, and then created under the
\* second
C16_Witness ==
    /\ lastDecorate.outcome = "returned"
    /\ lastDecorate.arg = [kind |-> "list", names |-> <<"bio", "audio">>]
    /\ lastDecorate.cls = "TextProcessor"
    /\ lastCreate.outcome = "instance"
    /\ lastCreate.name = "audio"
    /\ lastCreate.cls = "TextProcessor"

\* C12: a load_from_file call whose file makes no register call ends with
\* an error: it never returns (with the count 0) as a successful load.
C12_EmptyLoadIsError ==
    lastLoad.outcome = "returned" => FileScript(lastLoad.file) # << >>

\* the names a plugin file registers
ScriptNames(f) == {FileScript(f)[i][1] : i \in 1..Len(FileScript(f))}

\* C24: a load_from_file call that returns gives the number of names it
\* added, the registry size after the call minus the size before it: names
\* of the file that were bound before are overwritten and not counted, and
\* a load of the file that the load before it loaded returns 0.
C24_LoadCountsNewNames ==
    /\ [](lastLoad.outcome = "returned" =>
            lastLoad.count = Cardinality(ScriptNames(lastLoad.file) \ lastLoad.before))
    /\ [][(lastLoad' # lastLoad /\ lastLoad'.outcome = "returned") =>
            /\ lastLoad'.count = Cardinality(ListProcessors(registry'))
                                 - Cardinality(ListProcessors(registry))
            /\ \A n \in ScriptNames(lastLoad'.file) : registry'[n] = lastWriter'[n]
            /\ (lastLoad.outcome = "returned" /\ lastLoad.file = lastLoad'.file) =>
                    lastLoad'.count = 0]_vars

\* media.py loaded while both of its names were bound: both are overwritten
\* and the call returns 0
C24_Witness ==
    /\ lastLoad.outcome = "returned"
    /\ lastLoad.file = "media.py"
    /\ lastLoad.before = {"bio", "audio"}
    /\ lastLoad.count = 0
    /\ registry["bio"] = "ConfigTextProcessor"
    /\ registry["audio"] = "AudioProcessor"

\* C25: a load_from_file call that fails (missing path, no module spec, an
\* exception while the file is executed) leaves the registry exactly as it
\* was before the call.
C25_FailedLoadLeavesRegistry ==
    [][(lastLoad' # lastLoad /\ lastLoad'.outcome \notin {"none", "returned"})
        => registry' = registry]_vars

----------------------------------------------------------------------------
(* Service operations *)

\* history: the register calls the auto-load of an aggregation makes
RECURSIVE AutoLoadWriters(_, _, _)
AutoLoadWriters(lw, paths, i) ==
    IF i > Len(paths) THEN lw
    ELSE AutoLoadWriters(IF FileExists(paths[i]) /\ FileHasSpec(paths[i])
                         THEN LastWriterAll(lw, FileScript(paths[i]), 1)
                         ELSE lw,
                         paths, i + 1)

\* DataService.load_protobuf_module, when it succeeds
DataLoadProtobuf ==
    /\ variant = "data"
    /\ ~svc.protobuf
    /\ svc' = [svc EXCEPT !.protobuf = TRUE]
    /\ lastEntry' = NoEntry
    /\ UNCHANGED <<probeVars, sessionVars, variant, pv, registryVars, samplerVars>>

\* DataService._format_entry on one entry of the store
DataFormatEntry ==
    /\ variant = "data"
    /\ \E decodes \in BOOLEAN, fields \in Records :
        \E r \in {FormatEntry(registry, svc, decodes, fields)} :
           /\ Len(r.temp_files) <= MaxTemp
           /\ lastEntry' = r.entry
           /\ svc' = [svc EXCEPT !.temp_files = r.temp_files]
           /\ registry' = r.reg
           /\ lastWriter' = IF r.reg # registry
                            THEN AutoLoadWriters(lastWriter, svc.processor_paths, 1)
                            ELSE lastWriter
    /\ UNCHANGED <<probeVars, sessionVars, variant, pv, lastCreate, lastLoad, lastDecorate, samplerVars>>

\* DataService(db_path, processor_paths=paths): a new service takes the
\* place of the one before it; the registry is the same process-wide object
DataConstruct ==
    /\ variant = "data"
    /\ \E paths \in PathChoices :
        svc' = [protobuf |-> FALSE, temp_files |-> << >>, processor_paths |-> paths]
    /\ lastEntry' = NoEntry
    /\ UNCHANGED <<probeVars, sessionVars, variant, pv, registryVars, samplerVars>>

\* DataService.close: the reader is closed, cleanup_temp_files empties the
\* list of tracked files
DataClose ==
    /\ variant = "data"
    /\ env' = FALSE
    /\ svc' = [svc EXCEPT !.temp_files = << >>]
    /\ lastEntry' = NoEntry
    /\ UNCHANGED <<probeVars, sessionVars, store, hashOf, lastSample, variant, pv, registryVars>>

\* PreviewService.load_protobuf_modules with set_message_type, when they
\* succeed
PreviewLoadProtobuf ==
    /\ variant = "preview"
    /\ ~pv.loaded
    /\ pv' = [pv EXCEPT !.loaded = TRUE]
    /\ lastEntry' = NoEntry
    /\ UNCHANGED <<probeVars, sessionVars, variant, svc, registryVars, samplerVars>>

\* PreviewService.set_field_config(message_type, config)
SetFieldConfig ==
    /\ variant = "preview"
    /\ \E c \in ConfigChoices : pv' = [pv EXCEPT !.field_config = c]
    /\ lastEntry' = NoEntry
    /\ UNCHANGED <<probeVars, sessionVars, variant, svc, registryVars, samplerVars>>

\* PreviewService._format_value on one value of the store
PreviewFormatValue ==
    /\ variant = "preview"
    /\ \E decodes \in BOOLEAN, fields \in Records :
        lastEntry' = AddProtobufInfo(registry, pv, decodes, fields)
    /\ UNCHANGED <<probeVars, sessionVars, variant, svc, pv, registryVars, samplerVars>>

\* a process runs one of the two services; a DataService is constructed
\* with its processor_paths
AggregatorInit ==
    /\ RegistryStart
    /\ SamplerStart
    /\ SessionStart
    /\ ProbeStart
    /\ variant \in {"data", "preview"}
    /\ \E paths \in PathChoices :
        svc = [protobuf |-> FALSE, temp_files |-> << >>,
               processor_paths |-> IF variant = "data" THEN paths ELSE NoPaths]
    /\ pv = [loaded |-> FALSE, field_config |-> << >>]
    /\ lastEntry = NoEntry

AggregatorNext ==
    \/ Register
    \/ DataConstruct
    \/ DataLoadProtobuf
    \/ DataFormatEntry
    \/ DataClose
    \/ PreviewLoadProtobuf
    \/ SetFieldConfig
    \/ PreviewFormatValue

SpecAggregator == AggregatorInit /\ [][AggregatorNext]_vars

----------------------------------------------------------------------------
(* Claims about the aggregators, checked under SpecAggregator *)

\* the positions of the history where a processor returned a non-empty dict
ResultSteps == {i \in 1..Len(lastEntry.trace) : lastEntry.trace[i].kind = "result"}

\* the positions of the history where a processor raised
RaiseSteps ==
    {i \in 1..Len(lastEntry.trace) : lastEntry.trace[i].kind \in {"raise", "propagate"}}

\* a dict without a type key, or with a type outside the closed set
StructurallyInvalid(pr) == ~pr.has_type \/ pr.type \notin PreviewTypes

\* the dict is listed in the bundle of the entry, under category t
ListedUnder(pr, t) ==
    /\ lastEntry.has_media
    /\ t \in DOMAIN lastEntry.media
    /\ \E j \in 1..Len(lastEntry.media[t]) : lastEntry.media[t][j] = pr

Listed(pr) == \E t \in PreviewTypes : ListedUnder(pr, t)

\* C5: in DataService._add_media_preview a non-empty result without a type
\* key, or with a type outside the recognized set, makes the aggregation
\* raise DataProcessingError; no bundle is produced from it.
C5_TypeValidation ==
    (/\ lastEntry.service = "data"
     /\ \E i \in ResultSteps : StructurallyInvalid(lastEntry.trace[i].preview))
    => (lastEntry.agg = "DataProcessingError" /\ ~lastEntry.has_media)

\* a valid text result followed by a result without a type key
C5_Witness ==
    /\ lastEntry.service = "data"
    /\ lastEntry.agg = "DataProcessingError"
    /\ \E i, j \in ResultSteps :
        /\ i < j
        /\ lastEntry.trace[i].preview.type = "text"
        /\ ~lastEntry.trace[j].preview.has_type

\* C6: a structural error of the aggregation (missing or invalid type)
\* leaves DataService._format_entry as an exception; it does not become the
\* protobuf_error value of the entry.
C6_StructuralErrorPropagates ==
    (/\ lastEntry.service = "data"
     /\ \E i \in ResultSteps : StructurallyInvalid(lastEntry.trace[i].preview))
    => (lastEntry.outcome # "returned" /\ lastEntry.protobuf_error = "none")

\* C7: when every non-empty result of a record has a type of the closed set
\* {text, audio, image, custom}, DataService._add_media_preview returns and
\* lists each result under its type.
C7_ClosedSetAccepted ==
    (/\ lastEntry.service = "data"
     /\ ResultSteps # {}
     /\ \A i \in ResultSteps : ~StructurallyInvalid(lastEntry.trace[i].preview))
    => /\ lastEntry.agg = "returned"
       /\ \A i \in ResultSteps :
            ListedUnder(lastEntry.trace[i].preview, lastEntry.trace[i].preview.type)

\* C8: in every formatted entry the media preview key is present only if a
\* processor produced a non-empty result, and every category under it has a
\* non-empty list.
C8_NoEmptyBundle ==
    lastEntry.has_media =>
        /\ ResultSteps # {}
        /\ \A t \in DOMAIN lastEntry.media : lastEntry.media[t] # << >>

\* what each aggregator accepts: DataService a type among text, audio and
\* image; ProtobufHandler every non-empty result
Accepted(pr) ==
    lastEntry.service = "data" => (pr.has_type /\ pr.type \in {"text", "audio", "image"})

C13_UnknownNameRaises ==
    (/\ lastEntry.service = "preview"
     /\ \E i \in RaiseSteps : lastEntry.trace[i].exc = "DataProcessingError")
    => lastEntry.agg = "DataProcessingError"

\* C29: with an empty registry, a DataService constructed without processor
\* paths formats an entry whose value decodes as the decoded protobuf with
\* no media_preview and no protobuf_error.
C29_NoProcessorsIsNoError ==
    (/\ lastEntry.service = "data"
     /\ lastEntry.has_protobuf
     /\ svc.processor_paths = NoPaths
     /\ ListProcessors(registry) = {})
    => /\ lastEntry.outcome = "returned"
       /\ lastEntry.protobuf_error = "none"
       /\ ~lastEntry.has_media

\* C30: the registry being one process-wide object, an aggregation loads
\* the processor_paths of its service only when the registry is empty: once
\* a name is registered, by whatever service or plugin, an aggregation of
\* any service leaves the registry as it is and gives each field the
\* processor the registry holds for it.
C30_AutoLoadOnlyWhenEmpty ==
    [][(/\ lastEntry'.service = "data"
        /\ lastEntry'.agg # "not-called"
        /\ ListProcessors(registry) # {})
       => /\ registry' = registry
          /\ lastEntry'.agg # "TypeError"
          /\ \A i \in 1..Len(lastEntry'.trace) :
                lastEntry'.trace[i].kind # "no-processor"
                    <=> lastEntry'.trace[i].field \in ListProcessors(registry)]_vars

\* a service constructed with broken.py and empty.py after "bio" was
\* registered previews "bio" and "audio": broken.py, which would bind
\* "audio", was not loaded
C30_Witness ==
    /\ lastEntry.service = "data"
    /\ lastEntry.agg = "returned"
    /\ lastEntry.has_media
    /\ svc.processor_paths = <<"broken.py", "empty.py">>
    /\ registry = [bio |-> "TextProcessor", audio |-> NoClass]
    /\ lastWriter = registry
    /\ \E i \in 1..Len(lastEntry.trace) :
            lastEntry.trace[i].field = "audio" /\ lastEntry.trace[i].kind = "no-processor"

----------------------------------------------------------------------------
(* Interface operations *)

\* the values of the "LMDB path" box: empty, a path that does not exist, a
\* file that is no directory, a directory lmdb cannot open, a database
DbPaths == {"", "missing", "file", "corrupt", "db"}

\* the values of the processor paths box, parsed: None when it is empty
TypedPaths == {NoPaths, <<"text.py">>, <<"missing.py">>}

\* the protobuf module box with the message class: empty, a missing file, a
\* module without the class, a module with it
ProtoModules == {"", "missing_pb2.py", "other_pb2.py", "record_pb2.py"}

\* processor_paths_to_use: the parsed box, else the config's list
PathsToUse(typed, cfg) == IF typed = NoPaths THEN cfg ELSE typed

\* how far the try block of _load_database gets before its first
\* exception: DataService() validates the path, open() opens lmdb,
\* reload_processors is no method of DataService, the protobuf module must
\* exist and hold the class
LoadFailure(db, typed, proto, cfg) ==
    CASE db = "file" -> "DatabaseError"
      [] db = "corrupt" -> "DatabaseError"
      [] PathsToUse(typed, cfg) # NoPaths -> "AttributeError"
      [] proto = "missing_pb2.py" -> "FileNotFoundError"
      [] proto = "other_pb2.py" -> "ProtobufError"
      [] OTHER -> "none"

\* the input is rejected before the try block, or inside it for a
\* processor file that does not exist
LoadRejected(db, typed) ==
    db \in {"", "missing"} \/ (typed # NoPaths /\ \E i \in 1..Len(typed) : ~FileExists(typed[i]))

\* new_service is set once DataService(...) returned: the constructor
\* raises for a path that is no directory
NewServiceCreated(db) == db # "file"

\* a plausible slip: the except block does not close the new service
LeavePartial(created) == IF created THEN "open" ELSE "none"

\* the except block: `if new_service is not None: new_service.close()`
ClosePartial(created) == IF created THEN "closed" ELSE "none"

\* a plausible slip: the results of the replaced service stay in the session
ResultsKept(results) == results

\* session_obj.results = [] when the service of the session is replaced
ResultsAfterLoad(results) == << >>

\* the new DataService of a successful _load_database
LoadedService(proto, entries) ==
    [state |-> "open", protobuf |-> (proto # ""), temp_files |-> << >>,
     processor_paths |-> NoPaths, entries |-> entries]

\* LmdbugInterface._load_database(db_path, protobuf_module, message_class,
\* processor_paths, session)
LoadDatabase ==
    /\ ~shutdown
    /\ \E u \in SessionIds :
        \/ /\ \E db \in DbPaths, typed \in TypedPaths : LoadRejected(db, typed)
           /\ lastOp' = [op |-> "load", outcome |-> "rejected", new_service |-> "none"]
           /\ UNCHANGED <<sessions, services, active, disk>>
        \/ /\ \E db \in DbPaths, typed \in TypedPaths, proto \in ProtoModules :
                /\ ~LoadRejected(db, typed)
                /\ LoadFailure(db, typed, proto, ifaceConfig) # "none"
                /\ lastOp' = [op |-> "load",
                              outcome |-> LoadFailure(db, typed, proto, ifaceConfig),
                              new_service |-> ClosePartial(NewServiceCreated(db))]
           /\ UNCHANGED <<sessions, services, active, disk>>
        \/ \E db \in DbPaths, typed \in TypedPaths, proto \in ProtoModules :
            /\ ~LoadRejected(db, typed)
            /\ LoadFailure(db, typed, proto, ifaceConfig) = "none"
            /\ \E new \in ServiceIds, entries \in StoreChoices :
                /\ services[new].state = "unborn"
                /\ \A sv \in ServiceIds : sv < new => services[sv].state # "unborn"
                /\ \E c \in {IF sessions[u].service = NoService
                              THEN [outcome |-> "returned"]
                              ELSE CloseService(sessions[u].service,
                                                services[sessions[u].service],
                                                disk, locked)} :
                    IF c.outcome # "returned"
                    THEN /\ services' = [services EXCEPT ![sessions[u].service] = c.service]
                         /\ disk' = c.disk
                         /\ active' = active \ {sessions[u].service}
                         /\ lastOp' = [op |-> "load", outcome |-> c.outcome,
                                       new_service |-> ClosePartial(TRUE)]
                         /\ UNCHANGED sessions
                    ELSE /\ services' =
                            [sv \in ServiceIds |->
                                IF sv = new THEN LoadedService(proto, entries)
                                ELSE IF sv = sessions[u].service THEN c.service
                                ELSE services[sv]]
                         /\ disk' = IF sessions[u].service = NoService THEN disk ELSE c.disk
                         /\ active' = (active \ {sessions[u].service}) \cup {new}
                         /\ sessions' = [sessions EXCEPT ![u] =
                                [service |-> new,
                                 results |-> ResultsAfterLoad(sessions[u].results)]]
                         /\ lastOp' = [op |-> "load", outcome |-> "loaded",
                                       new_service |-> "open"]
    /\ UNCHANGED <<probeVars, ifaceConfig, locked, shutdown, samplerVars, registryVars, serviceVars>>

\* the end of _browse_entries and _search_data: the results of the call
\* become the results of the session, an exception empties them
Browsed(u, op, r) ==
    /\ Len(r.service.temp_files) <= MaxTemp
    /\ sessions' = [sessions EXCEPT ![u].results =
                        IF r.outcome = "returned" THEN r.results ELSE << >>]
    /\ services' = [services EXCEPT ![sessions[u].service] = r.service]
    /\ disk' = disk \cup Written(sessions[u].service,
                                 services[sessions[u].service].temp_files,
                                 r.service.temp_files)
    /\ registry' = r.reg
    /\ lastWriter' = IF r.reg # registry
                     THEN AutoLoadWriters(lastWriter,
                            services[sessions[u].service].processor_paths, 1)
                     ELSE lastWriter
    /\ lastOp' = [op |-> op, outcome |-> r.outcome]

\* a handler called on a session without a service: "No database loaded"
NothingLoaded(u, op) ==
    /\ sessions[u].service = NoService
    /\ sessions' = [sessions EXCEPT ![u].results = << >>]
    /\ lastOp' = [op |-> op, outcome |-> "no-database"]
    /\ UNCHANGED <<services, disk, registry, lastWriter>>

\* LmdbugInterface._browse_entries(count, session)
BrowseEntries ==
    /\ ~shutdown
    /\ \E u \in SessionIds, count \in 0..2 :
        \/ NothingLoaded(u, "browse")
        \/ /\ sessions[u].service # NoService
           /\ \E r \in {FormattedEntries(registry, sessions[u].service,
                            services[sessions[u].service],
                            1..Len(services[sessions[u].service].entries), count)} :
                Browsed(u, "browse", r)
    /\ UNCHANGED <<probeVars, ifaceConfig, active, locked, shutdown, lastCreate, lastLoad, lastDecorate,
                   samplerVars, serviceVars>>

\* LmdbugInterface._search_data(query, limit, session); the query matches
\* the keys at the positions `matching`
SearchData ==
    /\ ~shutdown
    /\ \E u \in SessionIds, count \in 1..2, empty \in BOOLEAN :
        \/ NothingLoaded(u, "search")
        \/ /\ sessions[u].service # NoService
           /\ empty
           /\ sessions' = [sessions EXCEPT ![u].results = << >>]
           /\ lastOp' = [op |-> "search", outcome |-> "no-query"]
           /\ UNCHANGED <<services, disk, registry, lastWriter>>
        \/ /\ sessions[u].service # NoService
           /\ ~empty
           /\ \E matching \in SUBSET (1..Len(services[sessions[u].service].entries)) :
                \E r \in {FormattedEntries(registry, sessions[u].service,
                            services[sessions[u].service], matching, count)} :
                    Browsed(u, "search", r)
    /\ UNCHANGED <<probeVars, ifaceConfig, active, locked, shutdown, lastCreate, lastLoad, lastDecorate,
                   samplerVars, serviceVars>>

\* LmdbugInterface._browse_random_entries(count, session): DataService has
\* no get_random_entries, the AttributeError empties the results
BrowseRandomEntries ==
    /\ ~shutdown
    /\ \E u \in SessionIds :
        \/ NothingLoaded(u, "random")
        \/ /\ sessions[u].service # NoService
           /\ sessions' = [sessions EXCEPT ![u].results = << >>]
           /\ lastOp' = [op |-> "random", outcome |-> "AttributeError"]
           /\ UNCHANGED <<services, disk, registry, lastWriter>>
    /\ UNCHANGED <<probeVars, ifaceConfig, active, locked, shutdown, lastCreate, lastLoad, lastDecorate,
                   samplerVars, serviceVars>>

RECURSIVE CloseAll(_, _, _, _)
\* the loop of LmdbugInterface.cleanup_temp_files over the services S: an
\* exception of close is caught
CloseAll(S, svcs, dsk, lck) ==
    IF S = {} THEN [services |-> svcs, disk |-> dsk]
    ELSE LET sv == CHOOSE x \in S : \A y \in S : x <= y
             c == CloseService(sv, svcs[sv], dsk, lck)
         IN CloseAll(S \ {sv}, [svcs EXCEPT ![sv] = c.service], c.disk, lck)

\* the finally block of launch: LmdbugInterface.cleanup_temp_files
Shutdown ==
    /\ ~shutdown
    /\ shutdown' = TRUE
    /\ \E c \in {CloseAll(active, services, disk, locked)} :
        /\ services' = c.services
        /\ disk' = c.disk
    /\ active' = {}
    /\ lastOp' = [op |-> "shutdown", outcome |-> "returned"]
    /\ UNCHANGED <<probeVars, ifaceConfig, sessions, locked, samplerVars, registryVars, serviceVars>>

\* the registries a process has when the interface starts: empty, or the
\* processors its plugin modules registered
RegistryChoices ==
    {[n \in Names |-> NoClass],
     [bio |-> "AudioProcessor", audio |-> "ImageProcessor"],
     [bio |-> "TextProcessor", audio |-> "AudioProcessor"],
     [bio |-> "AudioProcessor", audio |-> "NoTypeProcessor"]}

\* LmdbugInterface(config): the config is None or carries processor_paths
SessionInit ==
    /\ SamplerStart
    /\ ServiceStart
    /\ registry \in RegistryChoices
    /\ lastWriter = registry
    /\ lastCreate = NoCreate
    /\ lastLoad = NoLoad
    /\ lastDecorate = NoDecorate
    /\ ifaceConfig \in {NoPaths, << >>, <<"text.py">>}
    /\ InterfaceStart
    /\ ProbeStart

SessionNext ==
    \/ LoadDatabase
    \/ BrowseEntries
    \/ SearchData
    \/ BrowseRandomEntries
    \/ Shutdown

SpecSession == SessionInit /\ [][SessionNext]_vars

----------------------------------------------------------------------------
(* Claims about the interface, checked under SpecSession *)

\* the temp_path values the previews of a session's results reference
Referenced(u) ==
    UNION {sessions[u].results[i].temp_paths : i \in 1..Len(sessions[u].results)}

\* the services this step closes
ClosedNow == {sv \in ServiceIds : services[sv].state = "open" /\ services'[sv].state = "closed"}

\* C14: temp-artifact liveness.  Before the interface shuts down, every
\* temp_path referenced by a preview of a session's current results exists;
\* a step deletes a temporary file only by closing the service that tracks
\* it; and a step before shutdown that closes the service of a session
\* empties the results of that session.
C14_TempArtifactLiveness ==
    /\ [](~shutdown => \A u \in SessionIds : Referenced(u) \subseteq disk)
    /\ [][/\ \A p \in disk \ disk' : p[1] \in ClosedNow
          /\ ~shutdown' =>
                \A u \in SessionIds :
                    sessions[u].service \in ClosedNow => sessions'[u].results = << >>]_vars

\* a session that reloaded a database browses previews of its second
\* service, the files of the first one are deleted, and a later load failed
C14_Witness ==
    /\ ~shutdown
    /\ sessions["s1"].service = 2
    /\ services[1].state = "closed"
    /\ TempPath(1, 1) \notin disk
    /\ TempPath(2, 1) \in Referenced("s1")
    /\ TempPath(2, 1) \in disk
    /\ lastOp.op = "load"
    /\ lastOp.outcome = "ProtobufError"

\* a _load_database step that replaced the service of session u by `new`
Replaced(u, new) ==
    /\ sessions' = [sessions EXCEPT ![u] = [service |-> new, results |-> << >>]]
    /\ new # sessions[u].service
    /\ services[new].state = "unborn"
    /\ services'[new].state = "open"
    /\ new \in active'
    /\ sessions[u].service # NoService =>
            /\ services'[sessions[u].service].state = "closed"
            /\ sessions[u].service \notin active'

\* C28: a _load_database call that succeeds leaves the session with the
\* newly opened service and no results, the service it held before closed
\* and out of the active set; a call that fails leaves every session, its
\* service and the active set as they were, and the service it created, if
\* any, closed.
C28_LoadKeepsSessionConsistent ==
    [][lastOp'.op = "load" =>
        IF lastOp'.outcome = "loaded"
        THEN \E u \in SessionIds, new \in ServiceIds : Replaced(u, new)
        ELSE /\ sessions' = sessions
             /\ services' = services
             /\ active' = active
             /\ lastOp'.new_service \in {"none", "closed"}
             /\ (lastOp'.outcome \in {"AttributeError", "FileNotFoundError",
                                      "ProtobufError"} =>
                    lastOp'.new_service = "closed")]_vars

\* a session that holds a service with results tried a load that failed
\* after the new service was opened
C28_Witness ==
    /\ lastOp.op = "load"
    /\ lastOp.outcome = "FileNotFoundError"
    /\ lastOp.new_service = "closed"
    /\ sessions["s1"].service = 2
    /\ sessions["s1"].results # << >>
    /\ services[1].state = "closed"
    /\ services[2].state = "open"
    /\ active = {2}

----------------------------------------------------------------------------
(* Cleanup operations: the public cleanup and close of a DataService, the  *)
(* cleanup of the ProtobufHandler, and what the file system does to the    *)
(* temporary files meanwhile                                               *)

\* the services that were constructed
Constructed == {sv \in ServiceIds : services[sv].state # "unborn"}

\* DataService.cleanup_temp_files() called on a service
ServiceCleanup ==
    /\ \E sv \in Constructed :
        \E c \in {CleanupTempFiles(sv, services[sv], disk, locked)} :
            /\ services' = [services EXCEPT ![sv].temp_files = c.temp_files]
            /\ disk' = c.disk
            /\ lastOp' = [op |-> "cleanup", outcome |-> c.outcome, service |-> sv,
                          before |-> services[sv].temp_files, removed |-> disk \ c.disk]
    /\ UNCHANGED <<probeVars, ifaceConfig, sessions, active, locked, shutdown,
                   samplerVars, registryVars, serviceVars>>

\* DataService.close() called on a service
ServiceClose ==
    /\ \E sv \in Constructed :
        \E c \in {CloseService(sv, services[sv], disk, locked)} :
            /\ services' = [services EXCEPT ![sv] = c.service]
            /\ disk' = c.disk
            /\ lastOp' = [op |-> "close", outcome |-> c.outcome, service |-> sv,
                          before |-> services[sv].temp_files, removed |-> disk \ c.disk]
    /\ UNCHANGED <<probeVars, ifaceConfig, sessions, active, locked, shutdown,
                   samplerVars, registryVars, serviceVars>>

\* the paths a caller hands to the handler's cleanup: temp_path values of
\* previews, or empty strings
HandlerPaths == {NoPath} \cup {TempPath(sv, k) : sv \in ServiceIds, k \in 1..MaxTemp}

\* ProtobufHandler.cleanup_temp_files(temp_paths) on a list that holds an
\* empty string and one path twice
HandlerCleanup ==
    /\ \E p \in HandlerPaths :
        \E c \in {HandlerCleanupFrom(<<NoPath, p, p>>, 1, disk, locked)} :
            /\ disk' = c.disk
            /\ lastOp' = [op |-> "handler-cleanup", outcome |-> c.outcome,
                          paths |-> <<NoPath, p, p>>, removed |-> disk \ c.disk]
    /\ UNCHANGED <<probeVars, ifaceConfig, sessions, services, active, locked, shutdown,
                   samplerVars, registryVars, serviceVars>>

\* a temporary file becomes undeletable (its directory is made read-only)
FileLocked ==
    /\ \E p \in disk \ locked : locked' = locked \cup {p}
    /\ lastOp' = NoOp
    /\ UNCHANGED <<probeVars, ifaceConfig, sessions, services, active, disk, shutdown,
                   samplerVars, registryVars, serviceVars>>

\* a temporary file is removed by somebody else (a cleaner of the temp
\* directory)
FileRemoved ==
    /\ \E p \in disk \ locked : disk' = disk \ {p}
    /\ lastOp' = NoOp
    /\ UNCHANGED <<probeVars, ifaceConfig, sessions, services, active, locked, shutdown,
                   samplerVars, registryVars, serviceVars>>

\* DataService(db_path) followed by open() and load_protobuf_module(): a
\* service of its own, outside any session, constructed once the services
\* before it were closed
ServiceOpen ==
    /\ \E new \in ServiceIds, entries \in StoreChoices :
        /\ services[new].state = "unborn"
        /\ \A sv \in ServiceIds : sv < new => services[sv].state = "closed"
        /\ services' = [services EXCEPT ![new] = LoadedService("record_pb2.py", entries)]
    /\ lastOp' = [op |-> "open", outcome |-> "returned"]
    /\ UNCHANGED <<probeVars, ifaceConfig, sessions, active, disk, locked, shutdown,
                   samplerVars, registryVars, serviceVars>>

\* DataService.get_first_entries(count) on a service; a processor never
\* gets the name of a file that exists
ServiceGetFirstEntries ==
    /\ \E sv \in Constructed, count \in 0..2 :
        \E r \in {FormattedEntries(registry, sv, services[sv],
                                   1..Len(services[sv].entries), count)} :
            /\ Len(r.service.temp_files) <= MaxTemp
            /\ Written(sv, services[sv].temp_files, r.service.temp_files) \cap disk = {}
            /\ services' = [services EXCEPT ![sv] = r.service]
            /\ disk' = disk \cup Written(sv, services[sv].temp_files,
                                         r.service.temp_files)
            /\ registry' = r.reg
            /\ lastWriter' = IF r.reg # registry
                             THEN AutoLoadWriters(lastWriter,
                                                  services[sv].processor_paths, 1)
                             ELSE lastWriter
            /\ lastOp' = [op |-> "first", outcome |-> r.outcome]
    /\ UNCHANGED <<probeVars, ifaceConfig, sessions, active, locked, shutdown, lastCreate,
                   lastLoad, lastDecorate, samplerVars, serviceVars>>

\* a process whose plugins registered an audio and an image processor, and
\* no service yet
CleanupInit ==
    /\ SamplerStart
    /\ ServiceStart
    /\ registry = [bio |-> "AudioProcessor", audio |-> "ImageProcessor"]
    /\ lastWriter = registry
    /\ lastCreate = NoCreate
    /\ lastLoad = NoLoad
    /\ lastDecorate = NoDecorate
    /\ SessionStart
    /\ ProbeStart

CleanupNext ==
    \/ ServiceOpen
    \/ ServiceGetFirstEntries
    \/ ServiceCleanup
    \/ ServiceClose
    \/ HandlerCleanup
    \/ FileLocked
    \/ FileRemoved

SpecCleanup == CleanupInit /\ [][CleanupNext]_vars

\* C15: cleanup is best-effort and total.  DataService.cleanup_temp_files,
\* DataService.close and ProtobufHandler.cleanup_temp_files return without
\* raising whether a listed file exists, is missing or cannot be deleted;
\* after the cleanup or close of a DataService its temp_files list is
\* empty, and a cleanup or close that finds the list empty removes nothing.
C15_CleanupTotal ==
    /\ lastOp.op \in {"cleanup", "close"} =>
            /\ lastOp.outcome = "returned"
            /\ services[lastOp.service].temp_files = << >>
            /\ (lastOp.before = << >> => lastOp.removed = {})
    /\ lastOp.op = "handler-cleanup" => lastOp.outcome = "returned"

\* a cleanup over two tracked files, the first of which cannot be deleted
\* and the second of which was already missing
C15_Witness ==
    /\ lastOp.op = "cleanup"
    /\ lastOp.outcome = "returned"
    /\ lastOp.before = <<1, 2>>
    /\ TempPath(lastOp.service, 1) \in disk \cap locked
    /\ lastOp.removed = {}
    /\ services[lastOp.service].state = "open"

----------------------------------------------------------------------------
(* Python values as the shipped field processors see them.  A value is a   *)
(* record of its runtime type t and a sequence v of integers: the code     *)
(* points of a str, the bytes of a bytes object, the one integer of an     *)
(* int, the code points of the repr of a dict, nothing for None.           *)

\* unit * n of Python
Repeat(unit, n) == [i \in 1..(n * Len(unit)) |-> unit[((i - 1) % Len(unit)) + 1]]

\* the string "..."
Ellipsis == <<46, 46, 46>>

\* the string "Hex: "
HexPrefix == <<72, 101, 120, 58, 32>>

\* the string values given to the processors: "", "shor", "short", 19 and
\* 20 and 200 and 201 times "a", the two lines "a\nb", the base64 text of
\* "hello", and the base64 text of 201 times "a"
StrInputs ==
    << << >>,
       <<115, 104, 111, 114>>,
       <<115, 104, 111, 114, 116>>,
       Repeat(<<97>>, 19),
       Repeat(<<97>>, 20),
       Repeat(<<97>>, 200),
       Repeat(<<97>>, 201),
       <<97, 10, 98>>,
       <<97, 71, 86, 115, 98, 71, 56, 61>>,
       Repeat(<<89, 87, 70, 104>>, 67) >>

\* the bytes values: b"", b"abc", 99 and 100 and 101 times b"a", and the
\* byte FF, which no UTF-8 text holds
BytesInputs ==
    << << >>, <<97, 98, 99>>, Repeat(<<97>>, 99), Repeat(<<97>>, 100),
       Repeat(<<97>>, 101), <<255>> >>

\* the values of other runtime types: the int 7, the nested mapping
\* {'a': 1}, and None
OtherInputs ==
    << [t |-> "int", v |-> <<7>>],
       [t |-> "dict", v |-> <<123, 39, 97, 39, 58, 32, 49, 125>>],
       [t |-> "none", v |-> << >>] >>

\* all values given to the processors
ValueInputs ==
    [i \in 1..Len(StrInputs) |-> [t |-> "str", v |-> StrInputs[i]]]
    \o [i \in 1..Len(BytesInputs) |-> [t |-> "bytes", v |-> BytesInputs[i]]]
    \o OtherInputs

RECURSIVE Digits(_)
\* str(n) of an int n >= 0
Digits(n) == IF n < 10 THEN <<48 + n>> ELSE Digits(n \div 10) \o <<48 + (n % 10)>>

\* str(value) of a value that is neither str nor bytes
StrOf(value) ==
    CASE value.t = "int" -> Digits(value.v[1])
      [] value.t = "none" -> <<78, 111, 110, 101>>
      [] OTHER -> value.v

\* the config argument: None, {} or a dict of overrides
NoConfig == [t |-> "none", items |-> << >>]
EmptyConfig == [t |-> "dict", items |-> << >>]
SmallConfig == [t |-> "dict", items |-> [max_length |-> 4, width |-> 1, height |-> 1]]
ConfigInputs == <<NoConfig, EmptyConfig, SmallConfig>>

\* config.get(key, default): None has no get
ConfigGet(config, key, default) ==
    IF config.t = "none" THEN [exc |-> "AttributeError", val |-> 0]
    ELSE [exc |-> "none",
          val |-> IF DOMAIN config.items # {} /\ key \in DOMAIN config.items
                  THEN config.items[key] ELSE default]

\* a dict is the function from its keys to their values; {} is the dict a
\* processor returns for a value it does not handle
EmptyResult == << >>

\* whether a dict is {}
IsEmpty(result) == DOMAIN result = {}

\* a call that returned `result`, and a call that raised `exc`
Returned(result) == [outcome |-> "returned", result |-> result]
Raised(exc) == [outcome |-> exc, result |-> EmptyResult]

\* try: ... except Exception: log and return {}
ExceptReturnsEmpty(r) == IF r.outcome = "returned" THEN r ELSE Returned(EmptyResult)

----------------------------------------------------------------------------
(* base64.b64decode(s) and bytes.decode('utf-8') *)

\* the value of a character of the base64 alphabet
B64Value(c) ==
    CASE c \in 65..90 -> c - 65
      [] c \in 97..122 -> c - 71
      [] c \in 48..57 -> c + 4
      [] c = 43 -> 62
      [] OTHER -> 63

InB64Alphabet(c) == c \in (65..90) \cup (97..122) \cup (48..57) \cup {43, 47}

\* b64decode without validation: characters outside the alphabet are
\* dropped, the data characters are read four at a time, and a last group
\* of two or three needs its padding ("=" characters, all at the end of
\* the strings given here)
B64Decode(chars) ==
    LET data == SelectSeq(chars, InB64Alphabet)
        pads == Len(SelectSeq(chars, LAMBDA c : c = 61))
        q == Len(data) % 4
        nbytes == (Len(data) \div 4) * 3 + (IF q = 0 THEN 0 ELSE q - 1)
        sextet(k) == IF k <= Len(data) THEN B64Value(data[k]) ELSE 0
        byte(j) ==
            LET g == 4 * ((j - 1) \div 3)
                r == (j - 1) % 3
            IN CASE r = 0 -> sextet(g + 1) * 4 + (sextet(g + 2) \div 16)
                 [] r = 1 -> (sextet(g + 2) % 16) * 16 + (sextet(g + 3) \div 4)
                 [] OTHER -> (sextet(g + 3) % 4) * 64 + sextet(g + 4)
    IN IF q = 1 \/ (q = 2 /\ pads < 2) \/ (q = 3 /\ pads < 1)
       THEN [exc |-> "binascii.Error", bytes |-> << >>]
       ELSE [exc |-> "none", bytes |-> [j \in 1..nbytes |-> byte(j)]]

\* bs.decode('utf-8') of bytes that hold ASCII only, or a byte that cannot
\* start a character (A6, B2, FF: the only bytes above 7F that the values
\* given here hold or decode to come first in their run)
Utf8Decode(bs) ==
    IF \A j \in 1..Len(bs) : bs[j] < 128
    THEN [exc |-> "none", chars |-> bs]
    ELSE [exc |-> "UnicodeDecodeError", chars |-> << >>]

\* bs.hex()
HexDigit(d) == IF d < 10 THEN 48 + d ELSE 87 + d
Hex(bs) ==
    [i \in 1..(2 * Len(bs)) |->
        IF i % 2 = 1 THEN HexDigit(bs[(i + 1) \div 2] \div 16)
        ELSE HexDigit(bs[i \div 2] % 16)]

\* text[:n]
Prefix(text, n) == SubSeq(text, 1, IF n < Len(text) THEN n ELSE Len(text))

\* "\n" in text, and text.count("\n")
Newlines(text) == Len(SelectSeq(text, LAMBDA c : c = 10))

----------------------------------------------------------------------------
(* config_examples/custom_processors.py *)

\* the length above which the text functions cut their preview
PreviewLimit == 200

\* the dict process_simple_text and process_base64_text build from a text
TextResult(field_name, text) ==
    [type |-> "text", field_name |-> field_name, content |-> text,
     length |-> Len(text),
     preview |-> IF Len(text) > PreviewLimit
                 THEN Prefix(text, PreviewLimit) \o Ellipsis ELSE text,
     is_multiline |-> Newlines(text) > 0,
     line_count |-> Newlines(text) + 1]

\* process_simple_text(field_name, value, config)
process_simple_text(field_name, value, config) ==
    IF value.t # "str" THEN Returned(EmptyResult)
    ELSE Returned(TextResult(field_name, value.v))

\* process_base64_text(field_name, value, config); an exception in
\* the try block is logged and {} returned
process_base64_text(field_name, value, config) ==
    ExceptReturnsEmpty(
        IF value.t = "str"
        THEN IF B64Decode(value.v).exc # "none"
             THEN Raised(B64Decode(value.v).exc)
             ELSE IF Utf8Decode(B64Decode(value.v).bytes).exc # "none"
             THEN Raised(Utf8Decode(B64Decode(value.v).bytes).exc)
             ELSE Returned(TextResult(field_name, Utf8Decode(B64Decode(value.v).bytes).chars))
        ELSE IF value.t = "bytes"
        THEN IF Utf8Decode(value.v).exc # "none"
             THEN Raised(Utf8Decode(value.v).exc)
             ELSE Returned(TextResult(field_name, Utf8Decode(value.v).chars))
        ELSE Returned(TextResult(field_name, StrOf(value))))

\* the defaults of process_pcm_audio_16khz
DefaultSampleRate == 16000
DefaultSampleWidth == 2

\* the dict process_pcm_audio_16khz builds; the WAV file has a fresh name
AudioResult(field_name, audio_data, sample_rate, channels, sample_width) ==
    [type |-> "audio", field_name |-> field_name, temp_path |-> "lmdbug_pcm_.wav",
     size |-> Len(audio_data), sample_rate |-> sample_rate, channels |-> channels,
     duration |-> Fin(Len(audio_data), sample_rate * channels * sample_width)]

\* process_pcm_audio_16khz(field_name, value, config); an exception in
\* the try block is logged and {} returned
process_pcm_audio_16khz(field_name, value, config) ==
    ExceptReturnsEmpty(
        IF config.t = "none" THEN Raised("AttributeError")
        ELSE IF value.t = "str"
        THEN IF B64Decode(value.v).exc # "none"
             THEN Raised(B64Decode(value.v).exc)
             ELSE Returned(AudioResult(field_name, B64Decode(value.v).bytes,
                        ConfigGet(config, "sample_rate", DefaultSampleRate).val,
                        ConfigGet(config, "channels", 1).val,
                        ConfigGet(config, "sample_width", DefaultSampleWidth).val))
        ELSE IF value.t = "bytes"
        THEN Returned(AudioResult(field_name, value.v,
                        ConfigGet(config, "sample_rate", DefaultSampleRate).val,
                        ConfigGet(config, "channels", 1).val,
                        ConfigGet(config, "sample_width", DefaultSampleWidth).val))
        ELSE Returned(EmptyResult))

\* the defaults of process_raw_image_rgb
DefaultImageSide == 224
DefaultImageChannels == 3

\* the inner try block of process_raw_image_rgb, on image_data: PIL and
\* numpy may be missing; reshape raises unless the size is height * width
\* * channels
RawImagePixels(field_name, image_data, width, height, channels, pil) ==
    IF ~pil THEN Returned(EmptyResult)
    ELSE IF Len(image_data) # height * width * channels THEN Raised("ValueError")
    ELSE IF channels \notin {1, 3} THEN Returned(EmptyResult)
    ELSE Returned([type |-> "image", field_name |-> field_name,
                   temp_path |-> "lmdbug_img_.png", size |-> Len(image_data),
                   width |-> width, height |-> height, channels |-> channels])

\* process_raw_image_rgb(field_name, value, config); pil: whether PIL and
\* numpy can be imported; an exception in the outer try block is logged
\* and {} returned
process_raw_image_rgb(field_name, value, config, pil) ==
    ExceptReturnsEmpty(
        IF config.t = "none" THEN Raised("AttributeError")
        ELSE IF value.t = "str"
        THEN IF B64Decode(value.v).exc # "none"
             THEN Raised(B64Decode(value.v).exc)
             ELSE RawImagePixels(field_name, B64Decode(value.v).bytes,
                        ConfigGet(config, "width", DefaultImageSide).val,
                        ConfigGet(config, "height", DefaultImageSide).val,
                        ConfigGet(config, "channels", DefaultImageChannels).val, pil)
        ELSE IF value.t = "bytes"
        THEN RawImagePixels(field_name, value.v,
                        ConfigGet(config, "width", DefaultImageSide).val,
                        ConfigGet(config, "height", DefaultImageSide).val,
                        ConfigGet(config, "channels", DefaultImageChannels).val, pil)
        ELSE Returned(EmptyResult))

\* the default max_length of process_hex_display
DefaultMaxLength == 200

\* hex_data of process_hex_display
HexData(value) ==
    CASE value.t = "str" -> value.v
      [] value.t = "bytes" -> Hex(value.v)
      [] OTHER -> StrOf(value)

\* process_hex_display(field_name, value, config); an exception in
\* the try block is logged and {} returned
process_hex_display(field_name, value, config) ==
    ExceptReturnsEmpty(
        IF config.t = "none" THEN Raised("AttributeError")
        ELSE Returned(
            [type |-> "text", field_name |-> field_name, content |-> HexData(value),
             preview |-> HexPrefix \o
                (IF Len(HexData(value)) > ConfigGet(config, "max_length", DefaultMaxLength).val
                 THEN Prefix(HexData(value),
                             ConfigGet(config, "max_length", DefaultMaxLength).val) \o Ellipsis
                 ELSE HexData(value)),
             length |-> Len(HexData(value))]))

----------------------------------------------------------------------------
(* config_examples/simple_processors.py *)

\* the shortest string SimpleTextProcessor handles, and where it cuts
SimpleMinLength == 5
SimplePreviewLimit == 200

\* SimpleTextProcessor.process(field_name, value)
SimpleTextProcess(field_name, value) ==
    IF value.t # "str" \/ Len(value.v) < SimpleMinLength
    THEN Returned(EmptyResult)
    ELSE Returned(
        [type |-> "text", field_name |-> field_name,
         content |-> Prefix(value.v, SimplePreviewLimit)
                     \o (IF Len(value.v) > SimplePreviewLimit THEN Ellipsis ELSE << >>),
         length |-> Len(value.v),
         info |-> [text |-> "Text (%d characters)", n |-> Len(value.v)]])

\* the shortest audio SimpleAudioProcessor handles, and its sample rate
SimpleMinBytes == 100
SimpleSampleRate == 24000

\* SimpleAudioProcessor.process(field_name, value); an exception in
\* the try block is logged and {} returned.  np.frombuffer raises on an
\* odd number of bytes; the duration is a whole number of milliseconds
\* only for a multiple of 24 samples, which no value given here has
SimpleAudioProcess(field_name, value) ==
    ExceptReturnsEmpty(
        IF value.t # "bytes" THEN Returned(EmptyResult)
        ELSE IF Len(value.v) < SimpleMinBytes THEN Returned(EmptyResult)
        ELSE IF Len(value.v) % 2 # 0 THEN Raised("ValueError")
        ELSE Returned(
            [type |-> "audio", field_name |-> field_name,
             temp_path |-> "simple_audio_.wav",
             info |-> [text |-> "24kHz 16-bit PCM (%d bytes, %dms)", n |-> Len(value.v),
                       ms |-> FloatToInt(Fin((Len(value.v) \div 2) * 1000,
                                             SimpleSampleRate))]]))

----------------------------------------------------------------------------
(* Calls of the shipped processors *)

FieldNames == {"bio", "text"}

\* what a call leaves behind
Processed(processor, r) ==
    /\ lastProcess' = [lastProcess EXCEPT !.processor = processor,
                                          !.outcome = r.outcome,
                                          !.result = r.result]
    /\ UNCHANGED <<lastFirst, sessionVars, samplerVars, registryVars, serviceVars>>

CallSimpleText ==
    /\ lastProcess.processor = "none"
    /\ Processed("process_simple_text",
                 process_simple_text(lastProcess.field_name, lastProcess.value,
                                     lastProcess.config))

CallBase64Text ==
    /\ lastProcess.processor = "none"
    /\ Processed("process_base64_text",
                 process_base64_text(lastProcess.field_name, lastProcess.value,
                                     lastProcess.config))

CallPcmAudio ==
    /\ lastProcess.processor = "none"
    /\ Processed("process_pcm_audio_16khz",
                 process_pcm_audio_16khz(lastProcess.field_name, lastProcess.value,
                                         lastProcess.config))

CallRawImage ==
    /\ lastProcess.processor = "none"
    /\ Processed("process_raw_image_rgb",
                 process_raw_image_rgb(lastProcess.field_name, lastProcess.value,
                                       lastProcess.config, lastProcess.pil))

CallHexDisplay ==
    /\ lastProcess.processor = "none"
    /\ Processed("process_hex_display",
                 process_hex_display(lastProcess.field_name, lastProcess.value,
                                     lastProcess.config))

CallSimpleTextProcessor ==
    /\ lastProcess.processor = "none"
    /\ Processed("SimpleTextProcessor",
                 SimpleTextProcess(lastProcess.field_name, lastProcess.value))

CallSimpleAudioProcessor ==
    /\ lastProcess.processor = "none"
    /\ Processed("SimpleAudioProcessor",
                 SimpleAudioProcess(lastProcess.field_name, lastProcess.value))

\* the arguments of the call are drawn before it is made: the field name,
\* the value, the config and whether PIL and numpy can be imported
ProcessorsInit ==
    /\ RegistryStart
    /\ SamplerStart
    /\ ServiceStart
    /\ SessionStart
    /\ lastFirst = NoFirst
    /\ \E f \in FieldNames, i \in 1..Len(ValueInputs), c \in 1..Len(ConfigInputs),
          pil \in BOOLEAN :
        lastProcess = [processor |-> "none", outcome |-> "none", field_name |-> f,
                       value |-> ValueInputs[i], config |-> ConfigInputs[c],
                       pil |-> pil, result |-> EmptyResult]

ProcessorsNext ==
    \/ CallSimpleText
    \/ CallBase64Text
    \/ CallPcmAudio
    \/ CallRawImage
    \/ CallHexDisplay
    \/ CallSimpleTextProcessor
    \/ CallSimpleAudioProcessor

SpecProcessors == ProcessorsInit /\ [][ProcessorsNext]_vars

----------------------------------------------------------------------------
(* Claims about the shipped processors, checked under SpecProcessors *)

\* the processors of text fields
TextProcessors == {"process_simple_text", "SimpleTextProcessor"}

\* C17: a text processor given a string longer than 200 characters returns
\* in `preview` the first 200 characters followed by "..." and in `content`
\* the whole string; given a string of at most 200 characters it returns
\* the string without "...".
C17_TextTruncation ==
    (/\ lastProcess.processor \in TextProcessors
     /\ lastProcess.value.t = "str"
     /\ ~IsEmpty(lastProcess.result))
    => /\ {"preview", "content"} \subseteq DOMAIN lastProcess.result
       /\ lastProcess.result.content = lastProcess.value.v
       /\ lastProcess.result.preview =
            IF Len(lastProcess.value.v) > 200
            THEN SubSeq(lastProcess.value.v, 1, 200) \o Ellipsis
            ELSE lastProcess.value.v

\* C18: a text processor given a string of fewer than 20 characters
\* returns the empty result.
C18_ShortTextSkipped ==
    (/\ lastProcess.processor = "SimpleTextProcessor"
     /\ lastProcess.value.t = "str"
     /\ Len(lastProcess.value.v) < 20)
    => IsEmpty(lastProcess.result)

\* C19: a shipped processor given a value of a runtime type it is not
\* written for (an int, a nested mapping, None) returns without raising,
\* and returns the empty result.
C19_TypeMismatchEmpty ==
    (/\ lastProcess.processor # "none"
     /\ lastProcess.value.t \in {"int", "dict", "none"})
    => /\ lastProcess.outcome = "returned"
       /\ IsEmpty(lastProcess.result)

\* width * height * channels of a config that is a dict
ExpectedSize(config) ==
    ConfigGet(config, "width", DefaultImageSide).val
    * ConfigGet(config, "height", DefaultImageSide).val
    * ConfigGet(config, "channels", DefaultImageChannels).val

\* C26: with PIL and numpy present, the raw-image processor given bytes
\* whose length differs from width * height * channels still returns an
\* image preview; only a channel count other than 1 or 3 makes the result
\* empty.
C26_SizeMismatchStillPreviews ==
    (/\ lastProcess.processor = "process_raw_image_rgb"
     /\ lastProcess.pil
     /\ lastProcess.value.t = "bytes"
     /\ lastProcess.config.t = "dict"
     /\ Len(lastProcess.value.v) # ExpectedSize(lastProcess.config))
    => /\ lastProcess.outcome = "returned"
       /\ (IsEmpty(lastProcess.result) <=>
            ConfigGet(lastProcess.config, "channels", DefaultImageChannels).val
                \notin {1, 3})

----------------------------------------------------------------------------
(* Reading the first entries: LMDBReader.get_first_entries of              *)
(* lmdbug/core/lmdb_reader.py and LMDBReader.get_first_n_entries of the    *)
(* older src/lmdbug/core/lmdb_reader.py                                    *)

\* get_first_entries(count): list(islice(cursor, count)) after
\* cursor.first()
FirstEntries(count) ==
    IF ~env THEN [outcome |-> "DatabaseError", result |-> << >>]
    ELSE [outcome |-> "returned",
          result |-> SubSeq([i \in 1..Len(store) |-> Entry(store[i])], 1,
                            IF count < Len(store) THEN count ELSE Len(store))]

RECURSIVE FirstNLoop(_, _, _)
\* for key, value in cursor: entries.append((key, value)); if
\* len(entries) >= n: break -- from position i on
FirstNLoop(i, entries, n) ==
    IF i > Len(store) THEN entries
    ELSE IF Len(entries) + 1 >= n THEN Append(entries, Entry(store[i]))
    ELSE FirstNLoop(i + 1, Append(entries, Entry(store[i])), n)

\* get_first_n_entries(n)
FirstNEntries(n) ==
    IF ~env THEN [outcome |-> "RuntimeError", result |-> << >>]
    ELSE [outcome |-> "returned", result |-> FirstNLoop(1, << >>, n)]

GetFirstEntries ==
    /\ \E count \in Counts :
        lastFirst' = [reader |-> "get_first_entries", body |-> "none", n |-> count,
                      outcome |-> FirstEntries(count).outcome,
                      result |-> FirstEntries(count).result, opened |-> env]
    /\ UNCHANGED <<lastProcess, sessionVars, samplerVars, registryVars, serviceVars>>

GetFirstNEntries ==
    /\ \E n \in Counts :
        lastFirst' = [reader |-> "get_first_n_entries", body |-> "none", n |-> n,
                      outcome |-> FirstNEntries(n).outcome,
                      result |-> FirstNEntries(n).result, opened |-> env]
    /\ UNCHANGED <<lastProcess, sessionVars, samplerVars, registryVars, serviceVars>>

\* a plausible slip: the check of the environment is skipped
EnsureOpenSkipped(e) == "none"

\* _ensure_open: DatabaseError unless self.env is set
EnsureOpen(e) == IF ~e THEN "DatabaseError" ELSE "none"

\* get_basic_info(): the entry count of the store (map_size is left out)
GetBasicInfo ==
    /\ lastFirst' = [reader |-> "get_basic_info", body |-> "none", n |-> 0,
                     outcome |-> IF EnsureOpen(env) # "none" THEN EnsureOpen(env)
                                 ELSE "returned",
                     result |-> IF EnsureOpen(env) # "none" THEN << >>
                                ELSE <<Len(store)>>,
                     opened |-> env]
    /\ UNCHANGED <<lastProcess, sessionVars, samplerVars, registryVars, serviceVars>>

\* the keys a search pattern matches: every key, none, all but the first
MatchSets == {Keys, {}, Keys \ {1}}

\* search_keys(pattern, count) for a pattern that matches the keys of M:
\* the first count matching entries in key order
SearchKeys ==
    /\ \E M \in MatchSets, count \in Counts :
        lastFirst' = [reader |-> "search_keys", body |-> "none", n |-> count,
                      outcome |-> IF EnsureOpen(env) # "none" THEN EnsureOpen(env)
                                  ELSE "returned",
                      result |-> IF EnsureOpen(env) # "none" THEN << >>
                                 ELSE [i \in DOMAIN FirstOf({j \in 1..Len(store) :
                                                               store[j] \in M}, count)
                                       |-> Entry(store[FirstOf({j \in 1..Len(store) :
                                                                 store[j] \in M}, count)[i]])],
                      opened |-> env]
    /\ UNCHANGED <<lastProcess, sessionVars, samplerVars, registryVars, serviceVars>>

\* what the body of a `with reader:` block does with the reader
WithBodies == {"pass", "read", "raise", "close", "close; read"}

\* the exception the body of the block ends with, the reader being open
\* when the body starts
BodyRaises(body) ==
    CASE body = "raise" -> "ValueError"
      [] body = "close; read" -> EnsureOpen(FALSE)
      [] OTHER -> EnsureOpen(TRUE)

\* __exit__(exc_type, ...): close(), which does nothing on a closed reader,
\* and `return False`: the exception of the body is not suppressed
Exit(exc) == [env |-> FALSE, propagated |-> exc]

\* `with reader: body`: __enter__ calls open(), which raises DatabaseError
\* when lmdb.open fails (the block is then not entered); __exit__ runs when
\* the body ends, however it ends
WithBlock ==
    /\ \E opens \in BOOLEAN, body \in WithBodies :
        IF ~opens
        THEN /\ env' = env
             /\ lastFirst' = [reader |-> "with", body |-> "not entered", n |-> 0,
                              outcome |-> "DatabaseError", result |-> << >>,
                              opened |-> FALSE]
        ELSE /\ env' = Exit(BodyRaises(body)).env
             /\ lastFirst' = [reader |-> "with", body |-> body, n |-> 0,
                              outcome |-> IF Exit(BodyRaises(body)).propagated = "none"
                                          THEN "returned"
                                          ELSE Exit(BodyRaises(body)).propagated,
                              result |-> << >>, opened |-> TRUE]
    /\ UNCHANGED <<lastProcess, sessionVars, store, hashOf, lastSample, registryVars,
                   serviceVars>>

\* a closed reader on a store of any keys
ReaderInit ==
    /\ RegistryStart
    /\ ServiceStart
    /\ SessionStart
    /\ ProbeStart
    /\ env = FALSE
    /\ \E S \in SUBSET Keys : store = SortedSeq(S)
    /\ hashOf = [k \in Keys |-> 0]
    /\ lastSample = NoSample

ReaderNext ==
    \/ ReaderOpen
    \/ ReaderClose
    \/ GetFirstEntries
    \/ GetFirstNEntries
    \/ GetBasicInfo
    \/ SearchKeys
    \/ GetRandomEntriesKeyhash
    \/ WithBlock

SpecReader == ReaderInit /\ [][ReaderNext]_vars

\* C20: a call that reads the first N entries, N >= 0, of a store of T
\* entries returns the first min(N, T) entries of the store in key order,
\* in both readers.
C20_FirstEntriesInKeyOrder ==
    (/\ lastFirst.reader \in {"get_first_entries", "get_first_n_entries"}
     /\ lastFirst.outcome = "returned") =>
        lastFirst.result =
            SubSeq(AllEntries, 1,
                   IF lastFirst.n < Len(store) THEN lastFirst.n ELSE Len(store))

\* the read operations of LMDBReader
Reads == {"get_basic_info", "search_keys", "get_first_entries"}

\* C27: a read operation runs only while the reader is open and raises
\* DatabaseError otherwise; close on a closed reader does nothing and does
\* not raise; a `with` block that was entered leaves the reader closed
\* however its body ended, and the exception of the body propagates.
C27_ReaderLifecycle ==
    /\ [](/\ lastFirst.reader \in Reads =>
                IF lastFirst.opened THEN lastFirst.outcome = "returned"
                ELSE lastFirst.outcome = "DatabaseError" /\ lastFirst.result = << >>
           /\ lastSample.outcome # "none" =>
                IF lastSample.opened THEN lastSample.outcome = "ok"
                ELSE lastSample.outcome = "DatabaseError" /\ lastSample.result = << >>
           /\ (lastFirst.reader = "with" /\ lastFirst.opened) =>
                lastFirst.outcome =
                    CASE lastFirst.body = "raise" -> "ValueError"
                      [] lastFirst.body = "close; read" -> "DatabaseError"
                      [] OTHER -> "returned")
    /\ [][(lastFirst' # lastFirst /\ lastFirst'.reader = "with" /\ lastFirst'.opened)
            => ~env']_vars
    /\ [][(lastFirst' # lastFirst /\ lastFirst'.reader \in Reads
            /\ lastFirst'.outcome = "returned") => (env /\ env')]_vars

\* a block whose body closed the reader and then read from it: the read
\* raised, the close of __exit__ found the reader closed, and the error
\* left the block
C27_Witness ==
    /\ lastFirst.reader = "with"
    /\ lastFirst.body = "close; read"
    /\ lastFirst.outcome = "DatabaseError"
    /\ ~env
    /\ lastSample.outcome = "DatabaseError"

====
